---- MODULE Spec2Model ----
(***************************************************************************)
(* chunk-locker: the pinned buffer pool (src/src/memory.rs) and the        *)
(* FastCDC streaming chunker (src/src/chunker/fast_cdc/chunking.rs).       *)
(*                                                                         *)
(* Spec      the buffer pool: tasks calling MemoryManager::alloc, handles  *)
(*           being dropped, and the release tasks Drop spawns, over the    *)
(*           tokio Mutex (FIFO) and the tokio Notify (one stored permit).  *)
(* FairSpec  Spec with the fairness the tokio scheduler gives: a task that *)
(*           can be polled is polled.  Nothing forces the application to   *)
(*           call alloc or to drop a handle.                               *)
(* ChunkSpec one StreamCdc over a source chosen at the start, polled as a  *)
(*           stream by a consumer; the source may fail.                    *)
(* TwinSpec  two StreamCdc, one after the other, over the same source and  *)
(*           config, each with its own read sizes; the source never fails. *)
(*                                                                         *)
(* Sizes are scaled down: the hash has HashBits bits instead of 64, bytes  *)
(* range over 0..MaxByte, chunk sizes over a few bytes.                    *)
(***************************************************************************)
EXTENDS Integers, Sequences, FiniteSets, TLC

(***************************************************************************)
(* Bounds of the model.                                                    *)
(***************************************************************************)
\* tasks that call MemoryManager::alloc
NumTasks == 2
\* cfg.buffer_count (memory.rs:55 requires at least two)
BufferCount == 2
\* bits of the occupancy bitmap past buffer_count (memory.rs:62-67 rounds the
\* bitmap up to whole machine words)
BitmapPad == 1
\* alloc calls one task makes
MaxAllocs == 3

\* cfg.buffer_size, the capacity of one pool buffer (MemoryHandle.max_len)
BufferSize == 5
\* the largest byte value of a source
MaxByte == 1
\* the longest source
MaxSrcLen == 6
\* the most bytes one read_buf call of the source delivers
MaxRead == 4
\* I/O errors one source returns
MaxErrs == 1
\* width of the gear hash (u64 in the code)
HashBits == 5
\* the range of min_size and the largest avg_size of the configs
MinSizeLo == 2
MinSizeHi == 3
AvgSizeHi == 4
\* the highest normalization level of the configs
MaxLevel == 1
MaxManagerCalls == 3
MaxWrite == 2

Tasks == 1..NumTasks
\* the StreamCdc instances: ChunkSpec runs the first, TwinSpec both
Runs == {1, 2}
Bytes == 0..MaxByte
BitmapLen == BufferCount + BitmapPad
Bits == 0..(BitmapLen - 1)

\* Who holds or waits for the bitmap's Mutex: task t is t, the release task
\* of slot i is -(i + 1), nobody is 0.
NoOne == 0

\* a byte of a buffer that was never written (memory.rs:60: alloc gives
\* uninitialized memory)
Uninit == -1
RelId(i) == 0 - (i + 1)

VARIABLES
    allocations,   \* MemoryManagerData.allocations: the occupancy bitmap
    lockHolder,    \* owner of the Mutex around the bitmap
    lockQueue,     \* the Mutex's FIFO wait list
    permit,        \* Notify: the one stored notify_one permit
    waiters,       \* Notify: the wait list of registered Notified futures
    pc,            \* where each task is inside alloc, or how its last call ended
    live,          \* live[i]: MemoryHandles with allocation_idx = i not yet dropped
    relSpawned,    \* relSpawned[i]: release tasks spawned by Drop, not yet polled
    calls,         \* calls[t]: alloc calls task t has started
    allocDone,     \* allocDone[t]: alloc calls of task t that returned a handle
    susp,          \* susp[t]: the current (or last) alloc call of t returned Pending
    nDropped,      \* handles dropped so far
    nCleared       \* bits cleared by release tasks so far

poolVars == <<allocations, lockHolder, lockQueue, permit, waiters, pc, live,
              relSpawned, calls, allocDone, susp, nDropped, nCleared>>

VARIABLES
    source,        \* the bytes the AsyncRead source holds
    cfg,           \* StreamCdc.cfg
    srcPos,        \* srcPos[r]: bytes the source has delivered to chunker r
    buffer,        \* StreamCdc.buffer: the bytes [0, len) of the active handle
    bufIdx,        \* allocation_idx of the active handle, -1 before new / after drop
    eof,           \* StreamCdc.eof
    processed,     \* StreamCdc.processed
    cpc,           \* where each chunker is: new, ready, fill, drain, done, panicked
    fillRead,      \* fill_buffer: all_bytes_read
    fillCap,       \* fill_buffer: initial_capacity
    pend,          \* read_chunk: (hash, count, offset) across the alloc of drain_bytes
    items,         \* items[r]: what the stream has yielded, in order
    nErr,          \* I/O errors the source has returned
    nReads,        \* read_buf calls made
    readAfterErr   \* a read_buf call was made after an error had been yielded

chunkVars == <<source, cfg, srcPos, buffer, bufIdx, eof, processed, cpc,
               fillRead, fillCap, pend, items, nErr, nReads, readAfterErr>>

VARIABLES
    hLen,          \* hLen[i]: MemoryHandle.len of the handle of slot i (of its last
                   \* handle while the slot is free)
    hMax,          \* hMax[i]: MemoryHandle.max_len of the handle of slot i
    dirty,         \* dirty[i]: the handle before the current one of slot i had len > 0
    lastOp,        \* the last update_len / truncate / advance_mut call and its outcome
    mem            \* mem[i]: the bytes of buffer i, Uninit where never written

handleVars == <<hLen, hMax, dirty, lastOp, mem>>

VARIABLES
    ctor            \* the last call of the constructor: its arguments, whether
                    \* it panicked, and the chunker it produced

VARIABLES
    config,         \* config.rs:18 CONFIG: <<>> until Config::load has run,
                    \* then <<the memory section of the file>>
    manager,        \* memory.rs:37 MANAGER: <<>> until MemoryManagerData::new
                    \* has returned, then <<its cfg>>
    mgrCall         \* the calls of MemoryManager::new so far: how many, the
                    \* file as it was at the last one, whether that one panicked

VARIABLES
    logCall         \* the last call of logarithm2: its argument and result

ctorVars == <<ctor, config, manager, mgrCall, logCall>>

VARIABLES
    chan,           \* the channel from the producer task to the next stage:
                    \* what was sent and not yet received
    rxClosed,       \* the receive end of the channel was closed
    nSent,          \* how many of items[1] the producer has sent
    held            \* the slots of the records the consumer holds

pipeVars == <<chan, rxClosed, nSent, held>>

vars == <<poolVars, chunkVars, handleVars, ctorVars, pipeVars>>

(***************************************************************************)
(* The bitmap operations alloc and dealloc use.                            *)
(***************************************************************************)
\* mutant: the highest clear bit of a buffer is found, if there is one
FirstZero_LastFit(allocs) ==
    IF \E i \in Bits : ~allocs[i] /\ i < BufferCount
    THEN CHOOSE i \in Bits :
             /\ ~allocs[i] /\ i < BufferCount
             /\ \A j \in Bits : (j > i /\ j < BufferCount) => allocs[j]
    ELSE IF \E i \in Bits : ~allocs[i]
    THEN CHOOSE i \in Bits : ~allocs[i] /\ \A j \in Bits : j < i => allocs[j]
    ELSE -1

\* BitSlice::first_zero: the lowest clear bit of the whole bitmap, -1 for None
FirstZero(allocs) ==
    IF \E i \in Bits : ~allocs[i]
    THEN CHOOSE i \in Bits : ~allocs[i] /\ \A j \in Bits : j < i => allocs[j]
    ELSE -1

\* mutant: the test against buffer_count is off by one
NoBufferAvailable_OffByOne(allocs) ==
    FirstZero(allocs) = -1 \/ FirstZero(allocs) > BufferCount

\* mutant: the test against buffer_count is left out
NoBufferAvailable_NoCountTest(allocs) == FirstZero(allocs) = -1

\* memory.rs:119: first_zero.is_none() || first_zero >= buffer_count
NoBufferAvailable(allocs) ==
    FirstZero(allocs) = -1 \/ FirstZero(allocs) >= BufferCount

\* mutant: the claimed bit is not set
ClaimBit_NotSet(allocs, idx) == allocs

\* memory.rs:132: allocs.set_unchecked(idx, true)
ClaimBit(allocs, idx) == [allocs EXCEPT ![idx] = TRUE]

\* mutant: the release clears the bit of the next buffer
ClearBit_NextSlot(allocs, idx) ==
    [allocs EXCEPT ![(idx + 1) % BufferCount] = FALSE]

\* mutant: the release leaves the bit set
ClearBit_NotCleared(allocs, idx) == allocs

\* mutant: the release clears the first slot's bit instead of its own
ClearBit_FirstSlot(allocs, idx) == [allocs EXCEPT ![0] = FALSE]

\* memory.rs:156: allocs.set_unchecked(idx, false)
ClearBit(allocs, idx) == [allocs EXCEPT ![idx] = FALSE]

\* BitSlice::count_ones, as MemoryManager::allocations returns it
CountOnes(allocs) == Cardinality({i \in Bits : allocs[i]})

(***************************************************************************)
(* The gear hash and the cut-point search of the chunker.                  *)
(***************************************************************************)
HashMod == 2 ^ HashBits

RECURSIVE BitAnd(_, _)
\* the & of two naturals
BitAnd(a, b) ==
    IF a = 0 \/ b = 0 THEN 0
    ELSE (a % 2) * (b % 2) + 2 * BitAnd(a \div 2, b \div 2)

\* x << k on a word of HashBits bits
Shl(x, k) == (x * (2 ^ k)) % HashMod

\* u64::wrapping_add on a word of HashBits bits
WrappingAdd(x, y) == (x + y) % HashMod

\* consts::GEAR, scaled: one entry per byte value
GearTable == <<17, 22, 18, 27, 7>>
GEAR(b) == GearTable[b + 1]

\* consts::GEAR_LS: GEAR_LS[b] = GEAR[b] << 1
GEAR_LS(b) == Shl(GEAR(b), 1)

\* consts::MASKS, scaled: the mask of index i
MaskTable == <<2, 8, 12, 20, 22, 28, 30>>
MASKS(i) == MaskTable[i + 1]

\* mod.rs:482-484: (value as f32).log2().round() as u32 is monotone in
\* value; F32Steps[k + 1] is the least value at which it exceeds k.  Up to
\* k = 18 that is the least integer above 2^(k + 1/2); from k = 19 on the
\* f32 logarithm of the values just below 2^(k + 1/2) is k + 1/2 itself,
\* the nearest f32 (they are 2^-19 apart there), which round() takes up;
\* from 2^24 on, value as f32 has lost its low bits as well
F32Steps ==
    <<2, 3, 6, 12, 23, 46, 91, 182, 363, 725, 1449, 2897, 5793, 11586, 23171,
      46341, 92682, 185364, 370728, 741455, 1482910, 2965819, 5931638,
      11863276, 23726551, 47453102, 94906204, 189812408, 379624816,
      759249632, 1518499264>>

\* mod.rs:482-484: logarithm2, for value < 2^31; (0 as f32).log2() is -inf,
\* which `as u32` takes to 0
Logarithm2(value) ==
    Cardinality({k \in 1..Len(F32Steps) : F32Steps[k] <= value})

\* chunking.rs:49-55: Normalization::masks, (mask_s, mask_l)
NormalizationMasks(level, avg_size) ==
    LET bits == Logarithm2(avg_size)
    IN  <<MASKS(bits + level), MASKS(bits - level)>>

\* StreamCdcConfig: the sizes, and the masks with their shifted twins
MakeConfig(min_size, avg_size, max_size, level) ==
    LET m == NormalizationMasks(level, avg_size)
    IN  [min_size |-> min_size, avg_size |-> avg_size, max_size |-> max_size,
         mask_s |-> m[1], mask_l |-> m[2],
         mask_s_ls |-> Shl(m[1], 1), mask_l_ls |-> Shl(m[2], 1)]

\* the configs of the model: min_size <= avg_size <= max_size <= buffer_size
Configs ==
    {MakeConfig(mn, av, mx, lv) :
        <<mn, av, mx, lv>> \in
            {q \in (MinSizeLo..MinSizeHi) \X (MinSizeLo..AvgSizeHi)
                       \X (MinSizeLo..BufferSize) \X (0..MaxLevel) :
                q[1] <= q[2] /\ q[2] <= q[3] /\ Logarithm2(q[2]) >= q[4]}}

\* consts.rs: the bounds with_level checks the three sizes against
MINIMUM_MIN == 64
MINIMUM_MAX == 67108864
AVERAGE_MIN == 256
AVERAGE_MAX == 268435456
MAXIMUM_MIN == 1024
MAXIMUM_MAX == 1073741824

\* the sizes the constructor is called with: each bound, its neighbour on
\* the wrong side (the values of tests.rs:41-81), all within u32
SizeArgs ==
    {63, 64, 255, 256, 1023, 1024, 67108864, 67108867,
     268435456, 268435457, 1073741824, 1073741825}

\* mutant: the upper bound of max_size is not checked
SizesInRange_NoMaxUpper(min_size, avg_size, max_size) ==
    /\ min_size >= MINIMUM_MIN
    /\ min_size <= MINIMUM_MAX
    /\ avg_size >= AVERAGE_MIN
    /\ avg_size <= AVERAGE_MAX
    /\ max_size >= MAXIMUM_MIN

\* mod.rs:369-374: the six assert! of with_level
SizesInRange(min_size, avg_size, max_size) ==
    /\ min_size >= MINIMUM_MIN
    /\ min_size <= MINIMUM_MAX
    /\ avg_size >= AVERAGE_MIN
    /\ avg_size <= AVERAGE_MAX
    /\ max_size >= MAXIMUM_MIN
    /\ max_size <= MAXIMUM_MAX

\* no constructor call was made yet
NoCtorCall ==
    [called |-> FALSE, args |-> <<0, 0, 0, 0>>, panicked |-> FALSE,
     chunker |-> <<>>]

\* the sources of the model
Sources == UNION {[1..n -> Bytes] : n \in 0..MaxSrcLen}

RECURSIVE CutLoop(_, _, _, _, _, _)
\* chunking.rs:137-147 and 148-158: one for loop of cut over index..stop,
\* two bytes per iteration; buf[a] of the code is buf[a + 1] here
CutLoop(buf, index, stop, hash, mask_ls, mask) ==
    IF index >= stop THEN [found |-> FALSE, hash |-> hash, count |-> 0]
    ELSE LET a == index * 2
             h1 == WrappingAdd(Shl(hash, 2), GEAR_LS(buf[a + 1]))
             h2 == WrappingAdd(h1, GEAR(buf[a + 2]))
         IN  IF BitAnd(h1, mask_ls) = 0
             THEN [found |-> TRUE, hash |-> h1, count |-> a]
             ELSE IF BitAnd(h2, mask) = 0
             THEN [found |-> TRUE, hash |-> h2, count |-> a + 1]
             ELSE CutLoop(buf, index + 1, stop, h2, mask_ls, mask)

\* mutant: the search starts at the first byte instead of at min_size / 2
Cut_NoMinSkip(buf, c) ==
    LET n == Len(buf)
        remaining == IF n > c.max_size THEN c.max_size ELSE n
        center == IF n > c.max_size THEN c.avg_size
                  ELSE IF n < c.avg_size THEN n ELSE c.avg_size
        small == CutLoop(buf, 0, center \div 2, 0, c.mask_s_ls, c.mask_s)
        large == CutLoop(buf, center \div 2, remaining \div 2, small.hash,
                         c.mask_l_ls, c.mask_l)
    IN  IF n <= c.min_size THEN [hash |-> 0, count |-> n]
        ELSE IF small.found THEN [hash |-> small.hash, count |-> small.count]
        ELSE IF large.found THEN [hash |-> large.hash, count |-> large.count]
        ELSE [hash |-> large.hash, count |-> remaining]

\* mutant: a window longer than max_size is searched to its end
Cut_NoClamp(buf, c) ==
    LET n == Len(buf)
        remaining == n
        center == IF n < c.avg_size THEN n ELSE c.avg_size
        small == CutLoop(buf, c.min_size \div 2, center \div 2, 0,
                         c.mask_s_ls, c.mask_s)
        large == CutLoop(buf, center \div 2, remaining \div 2, small.hash,
                         c.mask_l_ls, c.mask_l)
    IN  IF n <= c.min_size THEN [hash |-> 0, count |-> n]
        ELSE IF small.found THEN [hash |-> small.hash, count |-> small.count]
        ELSE IF large.found THEN [hash |-> large.hash, count |-> large.count]
        ELSE [hash |-> large.hash, count |-> remaining]

\* chunking.rs:137-158: the highest index at which the two for loops of cut
\* may read a window of n bytes (buffer[a + 1] of the last iteration of the
\* last range that is not empty), -1 when they read nothing
CutReach(n, c) ==
    LET remaining == IF n > c.max_size THEN c.max_size ELSE n
        center == IF n > c.max_size THEN c.avg_size
                  ELSE IF n < c.avg_size THEN n ELSE c.avg_size
        stop == IF remaining \div 2 > center \div 2 THEN remaining \div 2
                ELSE IF center \div 2 > c.min_size \div 2 THEN center \div 2
                ELSE 0
    IN  IF n <= c.min_size THEN -1 ELSE 2 * stop - 1

\* chunking.rs:124-162: StreamCdc::cut over the bytes of the active buffer
Cut(buf, c) ==
    LET n == Len(buf)
        remaining == IF n > c.max_size THEN c.max_size ELSE n
        center == IF n > c.max_size THEN c.avg_size
                  ELSE IF n < c.avg_size THEN n ELSE c.avg_size
        small == CutLoop(buf, c.min_size \div 2, center \div 2, 0,
                         c.mask_s_ls, c.mask_s)
        large == CutLoop(buf, center \div 2, remaining \div 2, small.hash,
                         c.mask_l_ls, c.mask_l)
    IN  IF n <= c.min_size THEN [hash |-> 0, count |-> n]
        ELSE IF small.found THEN [hash |-> small.hash, count |-> small.count]
        ELSE IF large.found THEN [hash |-> large.hash, count |-> large.count]
        ELSE [hash |-> large.hash, count |-> remaining]

\* mutant: the loop reads on after the end of the source was seen
FillContinues_IgnoreEof(e, all_bytes_read, initial_capacity) ==
    all_bytes_read < initial_capacity

\* mutant: fill_buffer returns after its first read
FillContinues_OneRead(e, all_bytes_read, initial_capacity) ==
    ~e /\ all_bytes_read = 0

\* chunking.rs:211: the loop condition of fill_buffer
FillContinues(e, all_bytes_read, initial_capacity) ==
    ~e /\ all_bytes_read < initial_capacity

\* mutant: the new handle keeps the len the slot's last handle had
NewHandleLen_Stale(last) == last

\* memory.rs:136: the handle alloc builds has len: 0
NewHandleLen(last) == 0

(***************************************************************************)
(* tokio::sync::Mutex: dropping the guard hands the lock to the head of    *)
(* the wait list, if any.                                                  *)
(***************************************************************************)
Unlock ==
    IF lockQueue = <<>>
    THEN lockHolder' = NoOne /\ lockQueue' = lockQueue
    ELSE lockHolder' = Head(lockQueue) /\ lockQueue' = Tail(lockQueue)

(***************************************************************************)
(* Init: MemoryManagerData::new, memory.rs:52-79: a zeroed bitmap, an      *)
(* unlocked Mutex, a Notify without permit; no handle exists.              *)
(***************************************************************************)
PoolInit ==
    /\ allocations = [i \in Bits |-> FALSE]
    /\ lockHolder = NoOne
    /\ lockQueue = <<>>
    /\ permit = FALSE
    /\ waiters = <<>>
    /\ pc = [t \in Tasks |-> "idle"]
    /\ live = [i \in Bits |-> 0]
    /\ relSpawned = [i \in Bits |-> 0]
    /\ calls = [t \in Tasks |-> 0]
    /\ allocDone = [t \in Tasks |-> 0]
    /\ susp = [t \in Tasks |-> FALSE]
    /\ nDropped = 0
    /\ nCleared = 0
    /\ hLen = [i \in Bits |-> 0]
    /\ hMax = [i \in Bits |-> 0]
    /\ dirty = [i \in Bits |-> FALSE]
    /\ lastOp = [op |-> "none", panicked |-> FALSE]
    /\ mem = [i \in Bits |-> [k \in 1..BufferSize |-> Uninit]]

\* no StreamCdc exists yet: the fields a chunker gets at construction
NoChunker ==
    /\ srcPos = [r \in Runs |-> 0]
    /\ buffer = [r \in Runs |-> <<>>]
    /\ bufIdx = [r \in Runs |-> -1]
    /\ eof = [r \in Runs |-> FALSE]
    /\ processed = [r \in Runs |-> 0]
    /\ cpc = [r \in Runs |-> "new"]
    /\ fillRead = [r \in Runs |-> 0]
    /\ fillCap = [r \in Runs |-> 0]
    /\ pend = [r \in Runs |-> [hash |-> 0, count |-> 0, offset |-> 0]]
    /\ items = [r \in Runs |-> <<>>]
    /\ nErr = 0
    /\ nReads = [r \in Runs |-> 0]
    /\ readAfterErr = FALSE
    /\ ctor = NoCtorCall
    /\ config = <<>>
    /\ manager = <<>>
    /\ mgrCall = [n |-> 0, file |-> <<>>, panicked |-> FALSE]
    /\ logCall = [called |-> FALSE, value |-> 0, result |-> 0]
    /\ chan = <<>>
    /\ rxClosed = FALSE
    /\ nSent = 0
    /\ held = {}

\* the pool alone: no source is chunked
Init ==
    /\ PoolInit
    /\ NoChunker
    /\ source = <<>>
    /\ cfg = MakeConfig(MinSizeLo, MinSizeLo, MinSizeLo, 0)

\* the pool and a source with a config to chunk it
ChunkInit ==
    /\ PoolInit
    /\ NoChunker
    /\ source \in Sources
    /\ cfg \in Configs

(***************************************************************************)
(* MemoryManager::alloc, memory.rs:113-145, one action per poll step.      *)
(***************************************************************************)
\* a task calls alloc
AllocCall(t) ==
    /\ pc[t] \in {"idle", "dropped", "droppedWoken"}
    /\ calls[t] < MaxAllocs
    /\ pc' = [pc EXCEPT ![t] = "lock"]
    /\ calls' = [calls EXCEPT ![t] = @ + 1]
    /\ susp' = [susp EXCEPT ![t] = FALSE]
    /\ UNCHANGED <<allocations, lockHolder, lockQueue, permit, waiters, live,
                   relSpawned, allocDone, nDropped, nCleared>>
    /\ UNCHANGED <<chunkVars, handleVars, ctorVars, pipeVars>>

\* memory.rs:115: allocations.lock().await, first poll: the lock is taken if
\* it is free, otherwise the task queues and the call returns Pending; a
\* woken task gets here through the loop once its notified() has returned
AllocLock(t) ==
    /\ pc[t] \in {"lock", "woken"}
    /\ IF lockHolder = NoOne
       THEN /\ lockHolder' = t
            /\ pc' = [pc EXCEPT ![t] = "crit"]
            /\ UNCHANGED <<lockQueue, susp>>
       ELSE /\ lockQueue' = Append(lockQueue, t)
            /\ pc' = [pc EXCEPT ![t] = IF pc[t] = "woken" THEN "lockqWoken"
                                                          ELSE "lockq"]
            /\ susp' = [susp EXCEPT ![t] = TRUE]
            /\ UNCHANGED lockHolder
    /\ UNCHANGED <<allocations, permit, waiters, live, relSpawned, calls,
                   allocDone, nDropped, nCleared>>
    /\ UNCHANGED <<chunkVars, handleVars, ctorVars, pipeVars>>

\* mutant: the guard is kept over notified().await
DropGuardBeforeWait_Kept == UNCHANGED <<lockHolder, lockQueue>>

\* memory.rs:122: drop(allocs) before notified().await
DropGuardBeforeWait == Unlock

\* memory.rs:117-144 with the lock held: no buffer available: drop the guard
\* and go on to notified(); otherwise claim the first zero bit and return
\* the handle (end of scope drops the guard)
AllocCrit(t) ==
    /\ lockHolder = t
    /\ pc[t] \in {"crit", "lockq", "lockqWoken"}
    /\ IF NoBufferAvailable(allocations)
       THEN /\ pc' = [pc EXCEPT ![t] = "poll"]
            /\ DropGuardBeforeWait
            /\ UNCHANGED <<allocations, live, allocDone>>
            /\ UNCHANGED handleVars
       ELSE /\ allocations' = ClaimBit(allocations, FirstZero(allocations))
            /\ live' = [live EXCEPT ![FirstZero(allocations)] = @ + 1]
            /\ allocDone' = [allocDone EXCEPT ![t] = @ + 1]
            /\ pc' = [pc EXCEPT ![t] = "idle"]
            /\ hLen' = [hLen EXCEPT ![FirstZero(allocations)] = NewHandleLen(@)]
            /\ hMax' = [hMax EXCEPT ![FirstZero(allocations)] = BufferSize]
            /\ dirty' = [dirty EXCEPT ![FirstZero(allocations)] =
                                          hLen[FirstZero(allocations)] > 0]
            /\ UNCHANGED <<lastOp, mem>>
            /\ Unlock
    /\ UNCHANGED <<permit, waiters, relSpawned, calls, susp, nDropped, nCleared>>
    /\ UNCHANGED <<chunkVars, ctorVars, pipeVars>>

\* memory.rs:123: notify.notified().await, first poll: a stored permit is
\* consumed and the loop continues; otherwise the future joins the wait list
NotifiedPoll(t) ==
    /\ pc[t] = "poll"
    /\ IF permit
       THEN /\ permit' = FALSE
            /\ pc' = [pc EXCEPT ![t] = "lock"]
            /\ UNCHANGED <<waiters, susp>>
       ELSE /\ waiters' = Append(waiters, t)
            /\ pc' = [pc EXCEPT ![t] = "parked"]
            /\ susp' = [susp EXCEPT ![t] = TRUE]
            /\ UNCHANGED permit
    /\ UNCHANGED <<allocations, lockHolder, lockQueue, live, relSpawned, calls,
                   allocDone, nDropped, nCleared>>
    /\ UNCHANGED <<chunkVars, handleVars, ctorVars, pipeVars>>

(***************************************************************************)
(* Drop for MemoryHandle, memory.rs:260-268: spawn the release task.       *)
(***************************************************************************)
DropHandle(i) ==
    /\ live[i] > 0
    /\ live' = [live EXCEPT ![i] = @ - 1]
    /\ relSpawned' = [relSpawned EXCEPT ![i] = @ + 1]
    /\ nDropped' = nDropped + 1
    /\ UNCHANGED <<allocations, lockHolder, lockQueue, permit, waiters, pc,
                   calls, allocDone, susp, nCleared>>
    /\ UNCHANGED <<chunkVars, handleVars, ctorVars, pipeVars>>

(***************************************************************************)
(* MemoryManager::dealloc, memory.rs:153-158, run by the release task.     *)
(***************************************************************************)
\* memory.rs:155: allocations.lock().await
DeallocLock(i) ==
    /\ relSpawned[i] > 0
    /\ relSpawned' = [relSpawned EXCEPT ![i] = @ - 1]
    /\ IF lockHolder = NoOne
       THEN lockHolder' = RelId(i) /\ UNCHANGED lockQueue
       ELSE lockQueue' = Append(lockQueue, RelId(i)) /\ UNCHANGED lockHolder
    /\ UNCHANGED <<allocations, permit, waiters, pc, live, calls, allocDone,
                   susp, nDropped, nCleared>>
    /\ UNCHANGED <<chunkVars, handleVars, ctorVars, pipeVars>>

\* mutant: every registered waiter is woken, as notify_waiters would
NotifyOne_All ==
    IF waiters # <<>>
    THEN /\ waiters' = <<>>
         /\ pc' = [t \in Tasks |->
                      IF \E k \in 1..Len(waiters) : waiters[k] = t
                      THEN "woken" ELSE pc[t]]
         /\ UNCHANGED permit
    ELSE /\ permit' = TRUE
         /\ UNCHANGED <<waiters, pc>>

\* memory.rs:157: notify.notify_one(): wake the first registered waiter, or
\* store the permit when nobody is registered
NotifyOne ==
    IF waiters # <<>>
    THEN /\ waiters' = Tail(waiters)
         /\ pc' = [pc EXCEPT ![Head(waiters)] = "woken"]
         /\ UNCHANGED permit
    ELSE /\ permit' = TRUE
         /\ UNCHANGED <<waiters, pc>>

\* memory.rs:156-158: clear the bit, notify_one, drop the guard
DeallocCrit(i) ==
    /\ lockHolder = RelId(i)
    /\ allocations' = ClearBit(allocations, i)
    /\ NotifyOne
    /\ Unlock
    /\ nCleared' = nCleared + 1
    /\ UNCHANGED <<live, relSpawned, calls, allocDone, susp, nDropped>>
    /\ UNCHANGED <<chunkVars, handleVars, ctorVars, pipeVars>>

Next ==
    \/ \E t \in Tasks : AllocCall(t)
    \/ \E t \in Tasks : AllocLock(t)
    \/ \E t \in Tasks : AllocCrit(t)
    \/ \E t \in Tasks : NotifiedPoll(t)
    \/ \E i \in Bits : DropHandle(i)
    \/ \E i \in Bits : DeallocLock(i)
    \/ \E i \in Bits : DeallocCrit(i)

Spec == Init /\ [][Next]_vars

FairSpec ==
    /\ Spec
    /\ \A t \in Tasks : WF_vars(AllocLock(t)) /\ WF_vars(AllocCrit(t))
                        /\ WF_vars(NotifiedPoll(t))
    /\ \A i \in Bits : WF_vars(DeallocLock(i)) /\ WF_vars(DeallocCrit(i))

(***************************************************************************)
(* Cancellation: the future of alloc is dropped while the task is          *)
(* suspended at one of its two await points, memory.rs:115 and 123.        *)
(***************************************************************************)
\* tokio Notified::drop: a notify_one notification that was given to the
\* future and not yet received is passed on
ForwardOnDrop(notified) == notified

\* the alloc future of task t is dropped: a queued lock request leaves the
\* Mutex's wait list (a lock already handed over is released), and with it
\* goes the wake-up the task had received on its way there, its Notified
\* being complete; a registered Notified leaves the Notify's wait list; a
\* notified one passes its notification on to the next waiter, or stores it
\* as the permit
Cancel(t) ==
    /\ pc[t] \in {"lockq", "lockqWoken", "parked", "woken"}
    /\ IF pc[t] \in {"lockq", "lockqWoken"}
       THEN /\ IF lockHolder = t
               THEN Unlock
               ELSE /\ lockQueue' = SelectSeq(lockQueue, LAMBDA u : u # t)
                    /\ UNCHANGED lockHolder
            /\ pc' = [pc EXCEPT ![t] = IF pc[t] = "lockq" THEN "dropped"
                                                          ELSE "droppedWoken"]
            /\ UNCHANGED <<permit, waiters>>
       ELSE IF pc[t] = "parked"
       THEN /\ waiters' = SelectSeq(waiters, LAMBDA u : u # t)
            /\ pc' = [pc EXCEPT ![t] = "dropped"]
            /\ UNCHANGED <<lockHolder, lockQueue, permit>>
       ELSE /\ IF ~ForwardOnDrop(TRUE)
               THEN /\ pc' = [pc EXCEPT ![t] = "droppedWoken"]
                    /\ UNCHANGED <<permit, waiters>>
               ELSE IF waiters # <<>>
               THEN /\ waiters' = Tail(waiters)
                    /\ pc' = [pc EXCEPT ![t] = "droppedWoken",
                                        ![Head(waiters)] = "woken"]
                    /\ UNCHANGED permit
               ELSE /\ permit' = TRUE
                    /\ pc' = [pc EXCEPT ![t] = "droppedWoken"]
                    /\ UNCHANGED waiters
            /\ UNCHANGED <<lockHolder, lockQueue>>
    /\ UNCHANGED <<allocations, live, relSpawned, calls, allocDone, susp,
                   nDropped, nCleared>>
    /\ UNCHANGED <<chunkVars, handleVars, ctorVars, pipeVars>>

\* the pool with callers that may drop a suspended alloc
CancelNext ==
    \/ Next
    \/ \E t \in Tasks : Cancel(t)

CancelSpec == Init /\ [][CancelNext]_vars

(***************************************************************************)
(* MemoryHandle, memory.rs:173-242 and 324-337: the operations that change *)
(* len.  A failed assert panics before anything is assigned.               *)
(***************************************************************************)
\* the lengths and counts a caller passes: any up to one past the buffer size
LenArgs == 0..(BufferSize + 1)

\* mutant: the bound of update_len is not checked (update_len_unchecked)
UpdateLenOk_Unchecked(len, max_len) == TRUE

\* memory.rs:185-188: assert!(len <= self.max_len)
UpdateLenOk(len, max_len) == len <= max_len

\* mutant: truncate accepts any length
TruncateOk_Any(len, cur) == TRUE

\* memory.rs:200: assert!(len <= self.len)
TruncateOk(len, cur) == len <= cur

\* mutant: len follows the cursor
WrittenLen_Offset(len, offset) == offset

\* memory.rs:336: cmp::max(self.handle.len, self.offset)
WrittenLen(len, offset) == IF len > offset THEN len ELSE offset

\* memory.rs:184-190: update_len(n) on the handle of slot i
UpdateLen(i, n) ==
    /\ live[i] = 1
    /\ IF UpdateLenOk(n, hMax[i])
       THEN /\ hLen' = [hLen EXCEPT ![i] = n]
            /\ lastOp' = [op |-> "update_len", panicked |-> FALSE]
       ELSE /\ lastOp' = [op |-> "update_len", panicked |-> TRUE]
            /\ UNCHANGED hLen
    /\ UNCHANGED <<hMax, dirty, mem>>
    /\ UNCHANGED <<poolVars, chunkVars, ctorVars, pipeVars>>

\* memory.rs:199-202: truncate(n) on the handle of slot i
Truncate(i, n) ==
    /\ live[i] = 1
    /\ IF TruncateOk(n, hLen[i])
       THEN /\ hLen' = [hLen EXCEPT ![i] = n]
            /\ lastOp' = [op |-> "truncate", panicked |-> FALSE]
       ELSE /\ lastOp' = [op |-> "truncate", panicked |-> TRUE]
            /\ UNCHANGED hLen
    /\ UNCHANGED <<hMax, dirty, mem>>
    /\ UNCHANGED <<poolVars, chunkVars, ctorVars, pipeVars>>

\* memory.rs:329-337: advance_mut(cnt) of a write cursor at offset off of the
\* handle of slot i (235-241: a cursor starts at an offset <= len, and every
\* advance leaves offset <= len): the assert on remaining_mut, then
\* update_len(max(len, offset))
AdvanceMut(i, off, cnt) ==
    /\ live[i] = 1
    /\ off <= hLen[i]
    /\ LET newLen == WrittenLen(hLen[i], off + cnt)
       IN  IF cnt <= hMax[i] - off /\ UpdateLenOk(newLen, hMax[i])
           THEN /\ hLen' = [hLen EXCEPT ![i] = newLen]
                /\ lastOp' = [op |-> "advance_mut", panicked |-> FALSE]
           ELSE /\ lastOp' = [op |-> "advance_mut", panicked |-> TRUE]
                /\ UNCHANGED hLen
    /\ UNCHANGED <<hMax, dirty, mem>>
    /\ UNCHANGED <<poolVars, chunkVars, ctorVars, pipeVars>>

\* the slices a caller writes
WriteData == UNION {[1..n -> Bytes] : n \in 0..MaxWrite}

\* memory.rs:235-241 and 324-342: cursor_mut_from(off).put_slice(data) on the
\* handle of slot i: cursor_mut_from asserts off <= len, put_slice (bytes)
\* asserts remaining_mut() >= data.len(), copies data into chunk_mut(), the
\* buffer from offset on, and calls advance_mut(data.len())
PutSlice(i, off, data) ==
    /\ live[i] = 1
    /\ LET cnt == Len(data)
           newLen == WrittenLen(hLen[i], off + cnt)
       IN  IF off <= hLen[i] /\ cnt <= hMax[i] - off
                /\ UpdateLenOk(newLen, hMax[i])
           THEN /\ mem' = [mem EXCEPT ![i] =
                              [k \in 1..BufferSize |->
                                  IF k > off /\ k <= off + cnt THEN data[k - off]
                                  ELSE @[k]]]
                /\ hLen' = [hLen EXCEPT ![i] = newLen]
                /\ lastOp' = [op |-> "put_slice", panicked |-> FALSE,
                              slot |-> i, offset |-> off, cnt |-> cnt]
           ELSE /\ lastOp' = [op |-> "put_slice", panicked |-> TRUE,
                              slot |-> i, offset |-> off, cnt |-> cnt]
                /\ UNCHANGED <<hLen, mem>>
    /\ UNCHANGED <<hMax, dirty>>
    /\ UNCHANGED <<poolVars, chunkVars, ctorVars, pipeVars>>

\* memory.rs:512-535, tests::bytes_write: the task allocates one handle
FirstAlloc == calls[1] = 0 /\ AllocCall(1)

\* one task that allocates a handle, writes to it through cursors, truncates
\* it and drops it
WriteNext ==
    \/ FirstAlloc
    \/ AllocLock(1)
    \/ AllocCrit(1)
    \/ \E i \in Bits : DropHandle(i)
    \/ \E i \in Bits : DeallocLock(i)
    \/ \E i \in Bits : DeallocCrit(i)
    \/ \E i \in Bits : \E n \in LenArgs : Truncate(i, n)
    \/ \E i \in Bits : \E off \in LenArgs : \E data \in WriteData :
           PutSlice(i, off, data)

WriteSpec == Init /\ [][WriteNext]_vars

\* one task that allocates handles, changes their len and drops them
HandleNext ==
    \/ AllocCall(1)
    \/ AllocLock(1)
    \/ AllocCrit(1)
    \/ NotifiedPoll(1)
    \/ \E i \in Bits : DropHandle(i)
    \/ \E i \in Bits : DeallocLock(i)
    \/ \E i \in Bits : DeallocCrit(i)
    \/ \E i \in Bits : \E n \in LenArgs : UpdateLen(i, n)
    \/ \E i \in Bits : \E n \in LenArgs : Truncate(i, n)
    \/ \E i \in Bits : \E off \in LenArgs : \E cnt \in LenArgs : AdvanceMut(i, off, cnt)

HandleSpec == Init /\ [][HandleNext]_vars

(***************************************************************************)
(* StreamCdc, chunking.rs.  An alloc of the chunker is one step, taken     *)
(* when the Mutex is free and a buffer is available (until then the        *)
(* chunker waits inside alloc); the handles it drops are released by the   *)
(* release tasks above.                                                    *)
(***************************************************************************)
ErrItem == [kind |-> "err", hash |-> 0, offset |-> 0, data |-> <<>>]

ChunkItem(hash, offset, data) ==
    [kind |-> "chunk", hash |-> hash, offset |-> offset, data |-> data]

\* chunking.rs:111-119: StreamCdc::new: the first buffer, eof false, processed 0
NewChunker(r) ==
    /\ cpc[r] = "new"
    /\ lockHolder = NoOne
    /\ ~NoBufferAvailable(allocations)
    /\ allocations' = ClaimBit(allocations, FirstZero(allocations))
    /\ live' = [live EXCEPT ![FirstZero(allocations)] = @ + 1]
    /\ bufIdx' = [bufIdx EXCEPT ![r] = FirstZero(allocations)]
    /\ cpc' = [cpc EXCEPT ![r] = "ready"]
    /\ UNCHANGED <<lockHolder, lockQueue, permit, waiters, pc, relSpawned, calls,
                   allocDone, susp, nDropped, nCleared>>
    /\ UNCHANGED <<source, cfg, srcPos, buffer, eof, processed, fillRead, fillCap,
                   pend, items, nErr, nReads, readAfterErr>>
    /\ UNCHANGED <<handleVars, ctorVars, pipeVars>>

\* chunking.rs:230-245: read_chunk after the fill, over the buffer buf: None
\* for an empty buffer or an empty cut, else processed advances and
\* drain_bytes is entered
CutAndAdvance(r, buf) ==
    LET c == Cut(buf, cfg)
    IN  IF Len(buf) = 0 \/ c.count = 0
        THEN /\ cpc' = [cpc EXCEPT ![r] = "done"]
             /\ UNCHANGED <<processed, pend>>
        ELSE /\ cpc' = [cpc EXCEPT ![r] = "drain"]
             /\ processed' = [processed EXCEPT ![r] = @ + c.count]
             /\ pend' = [pend EXCEPT ![r] = [hash |-> c.hash, count |-> c.count,
                                             offset |-> processed[r]]]

\* chunking.rs:187 and 222-228: the stream is polled and calls read_chunk,
\* which enters fill_buffer (207-211) when the buffer holds less than max_size
Poll(r) ==
    /\ cpc[r] = "ready"
    /\ IF Len(buffer[r]) < cfg.max_size
          /\ FillContinues(eof[r], 0, BufferSize - Len(buffer[r]))
       THEN /\ cpc' = [cpc EXCEPT ![r] = "fill"]
            /\ fillRead' = [fillRead EXCEPT ![r] = 0]
            /\ fillCap' = [fillCap EXCEPT ![r] = BufferSize - Len(buffer[r])]
            /\ UNCHANGED <<processed, pend>>
       ELSE /\ CutAndAdvance(r, buffer[r])
            /\ UNCHANGED <<fillRead, fillCap>>
    /\ UNCHANGED poolVars
    /\ UNCHANGED <<source, cfg, srcPos, buffer, bufIdx, eof, items, nErr, nReads,
                   readAfterErr>>
    /\ UNCHANGED <<handleVars, ctorVars, pipeVars>>

\* chunking.rs:212-214: read_buf delivers n > 0 bytes into the tail of the buffer
Read(r, n) ==
    /\ cpc[r] = "fill"
    /\ n <= fillCap[r] - fillRead[r]
    /\ n <= Len(source) - srcPos[r]
    /\ LET buf == buffer[r] \o SubSeq(source, srcPos[r] + 1, srcPos[r] + n)
       IN  /\ buffer' = [buffer EXCEPT ![r] = buf]
           /\ IF FillContinues(eof[r], fillRead[r] + n, fillCap[r])
              THEN UNCHANGED <<cpc, processed, pend>>
              ELSE CutAndAdvance(r, buf)
    /\ srcPos' = [srcPos EXCEPT ![r] = @ + n]
    /\ fillRead' = [fillRead EXCEPT ![r] = @ + n]
    /\ nReads' = [nReads EXCEPT ![r] = @ + 1]
    /\ readAfterErr' = (readAfterErr \/ nErr > 0)
    /\ UNCHANGED poolVars
    /\ UNCHANGED <<source, cfg, bufIdx, eof, fillCap, items, nErr>>
    /\ UNCHANGED <<handleVars, ctorVars, pipeVars>>

\* chunking.rs:212-213: read_buf returns 0 at the end of the source: eof
ReadEof(r) ==
    /\ cpc[r] = "fill"
    /\ srcPos[r] = Len(source)
    /\ eof' = [eof EXCEPT ![r] = TRUE]
    /\ CutAndAdvance(r, buffer[r])
    /\ nReads' = [nReads EXCEPT ![r] = @ + 1]
    /\ readAfterErr' = (readAfterErr \/ nErr > 0)
    /\ UNCHANGED poolVars
    /\ UNCHANGED <<source, cfg, srcPos, buffer, bufIdx, fillRead, fillCap, items,
                   nErr>>
    /\ UNCHANGED <<handleVars, ctorVars, pipeVars>>

\* chunking.rs:212, 225 and 187-188: read_buf fails, the ? operators return
\* the error from fill_buffer and read_chunk, the stream yields it and its
\* loop goes on to the next read_chunk
ReadErr(r) ==
    /\ cpc[r] = "fill"
    /\ nErr < MaxErrs
    /\ nErr' = nErr + 1
    /\ items' = [items EXCEPT ![r] = Append(@, ErrItem)]
    /\ cpc' = [cpc EXCEPT ![r] = "ready"]
    /\ nReads' = [nReads EXCEPT ![r] = @ + 1]
    /\ readAfterErr' = (readAfterErr \/ nErr > 0)
    /\ UNCHANGED poolVars
    /\ UNCHANGED <<source, cfg, srcPos, buffer, bufIdx, eof, processed, fillRead,
                   fillCap, pend>>
    /\ UNCHANGED <<handleVars, ctorVars, pipeVars>>

\* chunking.rs:169-181 and 246, 188: drain_bytes: a new buffer is allocated
\* and swapped in; cursor_from(count) asserts count < len (memory.rs:224) and
\* panics otherwise, dropping the old buffer; else the bytes after the chunk
\* move to the new buffer, the old one is truncated to the chunk and yielded
Drain(r) ==
    /\ cpc[r] = "drain"
    /\ lockHolder = NoOne
    /\ ~NoBufferAvailable(allocations)
    /\ LET new == FirstZero(allocations)
           old == bufIdx[r]
           count == pend[r].count
       IN  /\ allocations' = ClaimBit(allocations, new)
           /\ bufIdx' = [bufIdx EXCEPT ![r] = new]
           /\ IF count < Len(buffer[r])
              THEN /\ live' = [live EXCEPT ![new] = @ + 1]
                   /\ buffer' = [buffer EXCEPT ![r] =
                                    SubSeq(@, count + 1, Len(@))]
                   /\ items' = [items EXCEPT ![r] =
                                   Append(@, ChunkItem(pend[r].hash, pend[r].offset,
                                                       SubSeq(buffer[r], 1, count)))]
                   /\ cpc' = [cpc EXCEPT ![r] = "ready"]
                   /\ UNCHANGED <<relSpawned, nDropped>>
              ELSE /\ live' = [live EXCEPT ![new] = @ + 1, ![old] = @ - 1]
                   /\ relSpawned' = [relSpawned EXCEPT ![old] = @ + 1]
                   /\ nDropped' = nDropped + 1
                   /\ buffer' = [buffer EXCEPT ![r] = <<>>]
                   /\ cpc' = [cpc EXCEPT ![r] = "panicked"]
                   /\ UNCHANGED items
    /\ UNCHANGED <<lockHolder, lockQueue, permit, waiters, pc, calls, allocDone,
                   susp, nCleared>>
    /\ UNCHANGED <<source, cfg, srcPos, eof, processed, fillRead, fillCap, pend,
                   nErr, nReads, readAfterErr>>
    /\ UNCHANGED <<handleVars, ctorVars, pipeVars>>

\* the stream has ended and the StreamCdc is dropped, its buffer with it
DropChunker(r) ==
    /\ cpc[r] \in {"done", "panicked", "cancelled"}
    /\ bufIdx[r] # -1
    /\ live' = [live EXCEPT ![bufIdx[r]] = @ - 1]
    /\ relSpawned' = [relSpawned EXCEPT ![bufIdx[r]] = @ + 1]
    /\ nDropped' = nDropped + 1
    /\ bufIdx' = [bufIdx EXCEPT ![r] = -1]
    /\ UNCHANGED <<allocations, lockHolder, lockQueue, permit, waiters, pc,
                   calls, allocDone, susp, nCleared>>
    /\ UNCHANGED <<source, cfg, srcPos, buffer, eof, processed, cpc, fillRead,
                   fillCap, pend, items, nErr, nReads, readAfterErr>>
    /\ UNCHANGED <<handleVars, ctorVars, pipeVars>>

\* the consumer drops the data of a record it was given
DropRecord(i) ==
    /\ \A r \in Runs : bufIdx[r] # i
    /\ DropHandle(i)

(***************************************************************************)
(* The constructor, mod.rs:353-394.                                        *)
(***************************************************************************)
\* consts::MASKS: the number of entries of the mask table, indexed 0..=26
MASKS_LEN == 27

\* mod.rs:375-377 and chunking.rs:50-53: the index of mask_s in MASKS
MaskIndexS(avg_size, level) == Logarithm2(avg_size) + level

\* mod.rs:378 and chunking.rs:53: the index of mask_l in MASKS
MaskIndexL(avg_size, level) == Logarithm2(avg_size) - level

\* the two indexings of MASKS succeed: an index past the table panics, and
\* so does bits - normalization below zero (a u32 overflow panic, or a
\* wrapped index far past the table)
MasksDefined(avg_size, level) ==
    /\ MaskIndexS(avg_size, level) \in 0..(MASKS_LEN - 1)
    /\ MaskIndexL(avg_size, level) \in 0..(MASKS_LEN - 1)

\* mod.rs:362-394: with_level panics at the first assert! that fails, then
\* at the indexing of MASKS if an index is outside the table, and otherwise
\* returns the chunker with the sizes as given; the masks it stores are
\* picked by avg_size and level alone, as in MakeConfig
WithLevel(min_size, avg_size, max_size, level) ==
    /\ ctor' = IF /\ SizesInRange(min_size, avg_size, max_size)
                  /\ MasksDefined(avg_size, level)
               THEN [called |-> TRUE,
                     args |-> <<min_size, avg_size, max_size, level>>,
                     panicked |-> FALSE,
                     chunker |-> <<[min_size |-> min_size,
                                    avg_size |-> avg_size,
                                    max_size |-> max_size,
                                    level |-> level]>>]
               ELSE [called |-> TRUE,
                     args |-> <<min_size, avg_size, max_size, level>>,
                     panicked |-> TRUE,
                     chunker |-> <<>>]
    /\ UNCHANGED <<config, manager, mgrCall, logCall>>
    /\ UNCHANGED <<poolVars, chunkVars, handleVars, pipeVars>>

\* constructor calls with any sizes and level
CtorNext ==
    \E mn \in SizeArgs, av \in SizeArgs, mx \in SizeArgs, lv \in 0..MaxLevel :
        WithLevel(mn, av, mx, lv)

CtorSpec == Init /\ [][CtorNext]_vars

(***************************************************************************)
(* The pool's configuration, memory.rs:37-110 and config.rs:18-36.         *)
(***************************************************************************)
\* the memory section the config file may hold when it is read
FileConfigs ==
    {[buffer_count |-> c, buffer_size |-> z] :
        c \in {1, 2, 3}, z \in {1023, 1024, 1025}}

\* mutant: the buffer count is not checked
BoundsOk_NoCountCheck(c) == c.buffer_size >= 1024

\* memory.rs:54-55: the two assert! of MemoryManagerData::new
BoundsOk(c) == c.buffer_size >= 1024 /\ c.buffer_count >= 2

\* memory.rs:105-110: MemoryManager::new: MANAGER.get_or_init runs
\* MemoryManagerData::new (52-80) only while the cell is empty; that reads
\* the config through CONFIG.get_or_init (config.rs:21-35), which reads the
\* file only while its own cell is empty; a panic of the asserts leaves
\* MANAGER empty
ManagerNew(file) ==
    /\ mgrCall.n < MaxManagerCalls
    /\ IF manager # <<>>
       THEN /\ UNCHANGED <<config, manager>>
            /\ mgrCall' = [n |-> mgrCall.n + 1, file |-> <<file>>,
                           panicked |-> FALSE]
       ELSE LET loaded == IF config = <<>> THEN <<file>> ELSE config
            IN  /\ config' = loaded
                /\ manager' = IF BoundsOk(loaded[1]) THEN loaded ELSE <<>>
                /\ mgrCall' = [n |-> mgrCall.n + 1, file |-> <<file>>,
                               panicked |-> ~BoundsOk(loaded[1])]
    /\ UNCHANGED <<ctor, logCall>>
    /\ UNCHANGED <<poolVars, chunkVars, handleVars, pipeVars>>

ManagerNext == \E file \in FileConfigs : ManagerNew(file)

ManagerSpec == Init /\ [][ManagerNext]_vars

(***************************************************************************)
(* logarithm2, mod.rs:481-484, called on its own.                          *)
(***************************************************************************)
\* the arguments tried: 0, the small values, the values of test_logarithm2
\* (tests.rs:5-39), the powers of two and the steps of the result, each with
\* its two neighbours, below 2^30
LogArgs ==
    {v \in (0..40)
            \cup {16383, 16384, 16385, 32767, 32768, 32769, 65535, 65536, 65537,
                  1048575, 1048576, 1048577, 4194303, 4194304, 4194305,
                  16777215, 16777216, 16777217}
            \cup {2 ^ k + d : k \in 1..29, d \in {-1, 0, 1}}
            \cup {F32Steps[k] + d : k \in 1..Len(F32Steps), d \in {-1, 0, 1}} :
        v < 1073741824}

Logarithm2Call(value) ==
    /\ logCall' = [called |-> TRUE, value |-> value,
                   result |-> Logarithm2(value)]
    /\ UNCHANGED <<ctor, config, manager, mgrCall>>
    /\ UNCHANGED <<poolVars, chunkVars, handleVars, pipeVars>>

LogNext == \E value \in LogArgs : Logarithm2Call(value)

LogSpec == Init /\ [][LogNext]_vars

(***************************************************************************)
(* The chunkers of mod.rs: StreamCDC, which reads its source through a     *)
(* buffer of max_size bytes, as run 1, and the FastCDC iterator over the   *)
(* whole source in memory, as run 2.  Neither uses the pool.               *)
(***************************************************************************)
\* mutant: the second loop starts from a fresh hash
FreeCut_HashReset(buf, c) ==
    LET n == Len(buf)
        remaining == IF n > c.max_size THEN c.max_size ELSE n
        center == IF n > c.max_size THEN c.avg_size
                  ELSE IF n < c.avg_size THEN n ELSE c.avg_size
        first == c.min_size \div 2
        small == CutLoop(buf, first, center \div 2, 0, c.mask_s_ls, c.mask_s)
        second == IF first > center \div 2 THEN first ELSE center \div 2
        large == CutLoop(buf, second, remaining \div 2, 0,
                         c.mask_l_ls, c.mask_l)
    IN  IF n <= c.min_size THEN [hash |-> 0, count |-> n]
        ELSE IF small.found THEN [hash |-> small.hash, count |-> small.count]
        ELSE IF large.found THEN [hash |-> large.hash, count |-> large.count]
        ELSE [hash |-> large.hash, count |-> remaining]

\* mod.rs:41-90: the free function cut over a slice; the second loop goes on
\* from the index the first one stopped at
FreeCut(buf, c) ==
    LET n == Len(buf)
        remaining == IF n > c.max_size THEN c.max_size ELSE n
        center == IF n > c.max_size THEN c.avg_size
                  ELSE IF n < c.avg_size THEN n ELSE c.avg_size
        first == c.min_size \div 2
        small == CutLoop(buf, first, center \div 2, 0, c.mask_s_ls, c.mask_s)
        second == IF first > center \div 2 THEN first ELSE center \div 2
        large == CutLoop(buf, second, remaining \div 2, small.hash,
                         c.mask_l_ls, c.mask_l)
    IN  IF n <= c.min_size THEN [hash |-> 0, count |-> n]
        ELSE IF small.found THEN [hash |-> small.hash, count |-> small.count]
        ELSE IF large.found THEN [hash |-> large.hash, count |-> large.count]
        ELSE [hash |-> large.hash, count |-> remaining]

\* the configs the two cut functions are compared on: avg_size <= max_size,
\* min_size on either side of avg_size
CutConfigs ==
    {MakeConfig(mn, av, mx, lv) :
        <<mn, av, mx, lv>> \in
            {q \in (1..BufferSize) \X (1..BufferSize) \X (1..BufferSize)
                       \X (0..MaxLevel) :
                q[2] <= q[3] /\ Logarithm2(q[2]) >= q[4]}}

\* a window of bytes and a config, and no call of cut made yet
CutInit ==
    /\ PoolInit
    /\ NoChunker
    /\ source \in Sources
    /\ cfg \in CutConfigs

\* chunking.rs:124-162: StreamCdc::cut with the window as its buffer; the
\* result is kept as pend[1]
StreamCut ==
    /\ cpc[1] = "new"
    /\ cpc' = [cpc EXCEPT ![1] = "done"]
    /\ pend' = [pend EXCEPT ![1] = [hash |-> Cut(source, cfg).hash,
                                    count |-> Cut(source, cfg).count,
                                    offset |-> 0]]
    /\ UNCHANGED poolVars
    /\ UNCHANGED <<source, cfg, srcPos, buffer, bufIdx, eof, processed, fillRead,
                   fillCap, items, nErr, nReads, readAfterErr>>
    /\ UNCHANGED <<handleVars, ctorVars, pipeVars>>

\* mod.rs:41-90: cut on the window with the sizes and masks of the config;
\* the result is kept as pend[2]
RefCut ==
    /\ cpc[2] = "new"
    /\ cpc' = [cpc EXCEPT ![2] = "done"]
    /\ pend' = [pend EXCEPT ![2] = [hash |-> FreeCut(source, cfg).hash,
                                    count |-> FreeCut(source, cfg).count,
                                    offset |-> 0]]
    /\ UNCHANGED poolVars
    /\ UNCHANGED <<source, cfg, srcPos, buffer, bufIdx, eof, processed, fillRead,
                   fillCap, items, nErr, nReads, readAfterErr>>
    /\ UNCHANGED <<handleVars, ctorVars, pipeVars>>

CutNext ==
    \/ StreamCut
    \/ RefCut

CutSpec == CutInit /\ [][CutNext]_vars

\* mutant: the fill loop stops as soon as the buffer holds anything
SyncFillContinues_OneRead(e, length, capacity) == ~e /\ length = 0

\* mod.rs:403: the loop condition of StreamCDC::fill_buffer
SyncFillContinues(e, length, capacity) == ~e /\ length < capacity

\* mod.rs:302-311 and 129-136: a ChunkData of StreamCDC, a Chunk of FastCDC
SyncItem(hash, offset, length) ==
    [kind |-> "chunk", hash |-> hash, offset |-> offset, length |-> length]

\* mod.rs:353-394 and 174-212: StreamCDC::new and FastCDC::new: an empty
\* buffer of max_size bytes, processed 0, eof false; remaining = source.len()
SyncNew(r) ==
    /\ cpc[r] = "new"
    /\ cpc' = [cpc EXCEPT ![r] = "ready"]
    /\ UNCHANGED poolVars
    /\ UNCHANGED <<source, cfg, srcPos, buffer, bufIdx, eof, processed, fillRead,
                   fillCap, pend, items, nErr, nReads, readAfterErr>>
    /\ UNCHANGED <<handleVars, ctorVars, pipeVars>>

\* mod.rs:404-409: fill_buffer reads n > 0 bytes into the free part of the
\* buffer
SyncRead(n) ==
    /\ cpc[1] = "ready"
    /\ SyncFillContinues(eof[1], Len(buffer[1]), cfg.max_size)
    /\ n <= cfg.max_size - Len(buffer[1])
    /\ n <= Len(source) - srcPos[1]
    /\ buffer' = [buffer EXCEPT ![1] =
                     @ \o SubSeq(source, srcPos[1] + 1, srcPos[1] + n)]
    /\ srcPos' = [srcPos EXCEPT ![1] = @ + n]
    /\ nReads' = [nReads EXCEPT ![1] = @ + 1]
    /\ UNCHANGED poolVars
    /\ UNCHANGED <<source, cfg, bufIdx, eof, processed, cpc, fillRead, fillCap,
                   pend, items, nErr, readAfterErr>>
    /\ UNCHANGED <<handleVars, ctorVars, pipeVars>>

\* mod.rs:404-406: the read returns 0: eof
SyncReadEof ==
    /\ cpc[1] = "ready"
    /\ SyncFillContinues(eof[1], Len(buffer[1]), cfg.max_size)
    /\ srcPos[1] = Len(source)
    /\ eof' = [eof EXCEPT ![1] = TRUE]
    /\ nReads' = [nReads EXCEPT ![1] = @ + 1]
    /\ UNCHANGED poolVars
    /\ UNCHANGED <<source, cfg, srcPos, buffer, bufIdx, processed, cpc, fillRead,
                   fillCap, pend, items, nErr, readAfterErr>>
    /\ UNCHANGED <<handleVars, ctorVars, pipeVars>>

\* mod.rs:436-465 and 416-432: read_chunk once fill_buffer has returned:
\* Empty for an empty buffer or an empty cut, which ends the iterator
\* (471-476); else the chunk is drained from the front of the buffer
SyncReadChunk ==
    /\ cpc[1] = "ready"
    /\ ~SyncFillContinues(eof[1], Len(buffer[1]), cfg.max_size)
    /\ LET k == FreeCut(buffer[1], cfg)
       IN  IF Len(buffer[1]) = 0 \/ k.count = 0
           THEN /\ cpc' = [cpc EXCEPT ![1] = "done"]
                /\ UNCHANGED <<buffer, processed, items>>
           ELSE /\ processed' = [processed EXCEPT ![1] = @ + k.count]
                /\ buffer' = [buffer EXCEPT ![1] =
                                 SubSeq(@, k.count + 1, Len(@))]
                /\ items' = [items EXCEPT ![1] =
                                Append(@, SyncItem(k.hash, processed[1], k.count))]
                /\ UNCHANGED cpc
    /\ UNCHANGED poolVars
    /\ UNCHANGED <<source, cfg, srcPos, bufIdx, eof, fillRead, fillCap, pend,
                   nErr, nReads, readAfterErr>>
    /\ UNCHANGED <<handleVars, ctorVars, pipeVars>>

\* mod.rs:244-263 and 225-238: FastCDC::next: the cut over
\* source[processed..], None when nothing remains
IterNext ==
    /\ cpc[2] = "ready"
    /\ LET rest == SubSeq(source, processed[2] + 1, Len(source))
           k == FreeCut(rest, cfg)
       IN  IF Len(rest) = 0 \/ k.count = 0
           THEN /\ cpc' = [cpc EXCEPT ![2] = "done"]
                /\ UNCHANGED <<processed, items>>
           ELSE /\ processed' = [processed EXCEPT ![2] = @ + k.count]
                /\ items' = [items EXCEPT ![2] =
                                Append(@, SyncItem(k.hash, processed[2], k.count))]
                /\ UNCHANGED cpc
    /\ UNCHANGED poolVars
    /\ UNCHANGED <<source, cfg, srcPos, buffer, bufIdx, eof, fillRead, fillCap,
                   pend, nErr, nReads, readAfterErr>>
    /\ UNCHANGED <<handleVars, ctorVars, pipeVars>>

SyncNext ==
    \/ \E r \in Runs : SyncNew(r)
    \/ \E n \in 1..MaxRead : SyncRead(n)
    \/ SyncReadEof
    \/ SyncReadChunk
    \/ IterNext

SyncSpec == ChunkInit /\ [][SyncNext]_vars

\* one chunker, its consumer and the release tasks
ChunkNext ==
    \/ NewChunker(1)
    \/ Poll(1)
    \/ \E n \in 1..MaxRead : Read(1, n)
    \/ ReadEof(1)
    \/ ReadErr(1)
    \/ Drain(1)
    \/ DropChunker(1)
    \/ \E i \in Bits : DropRecord(i)
    \/ \E i \in Bits : DeallocLock(i)
    \/ \E i \in Bits : DeallocCrit(i)

ChunkSpec == ChunkInit /\ [][ChunkNext]_vars

\* chunking.rs:212 and 173, 245: the future of next() is dropped while it is
\* suspended: at source.read_buf(..).await in fill_buffer, or at
\* MemoryManager::new().alloc().await in drain_bytes while that alloc is
\* pending (the Mutex is held or no buffer is free).  The locals of the
\* future go; the fields of the StreamCdc stay as the code has left them
CancelPoll(r) ==
    /\ \/ cpc[r] = "fill"
       \/ /\ cpc[r] = "drain"
          /\ (lockHolder # NoOne \/ NoBufferAvailable(allocations))
    /\ cpc' = [cpc EXCEPT ![r] = "cancelled"]
    /\ UNCHANGED poolVars
    /\ UNCHANGED <<source, cfg, srcPos, buffer, bufIdx, eof, processed, fillRead,
                   fillCap, pend, items, nErr, nReads, readAfterErr>>
    /\ UNCHANGED <<handleVars, ctorVars, pipeVars>>

\* the stream with a caller that may drop the future of next() where it is
\* suspended and then drops the chunker
PollCancelNext ==
    \/ ChunkNext
    \/ CancelPoll(1)

PollCancelSpec == ChunkInit /\ [][PollCancelNext]_vars

(***************************************************************************)
(* One StreamCdc, run by task 1, whose allocs go through the steps of      *)
(* MemoryManager::alloc (lock, first_zero, notified) instead of one step,  *)
(* over a source without errors and with a consumer that drops each        *)
(* record before it polls for the next.                                    *)
(***************************************************************************)
\* the handles chunker r has taken over from alloc so far: the one of new
\* and one per drain_bytes that went past its alloc
AllocsUsed(r) ==
    (IF cpc[r] = "new" THEN 0 ELSE 1) + Len(items[r])
        + (IF cpc[r] = "panicked" THEN 1 ELSE 0)

\* the slot of the handle alloc has just returned to the chunker
FreshSlot == CHOOSE i \in Bits : live[i] = 1 /\ i # bufIdx[1]

\* chunking.rs:114 and 173: StreamCdc::new and drain_bytes call alloc
ChunkerAllocCall ==
    /\ cpc[1] \in {"new", "drain"}
    /\ calls[1] = AllocsUsed(1)
    /\ AllocCall(1)

\* chunking.rs:111-119: StreamCdc::new once its alloc has returned
NewWithHandle ==
    /\ cpc[1] = "new"
    /\ pc[1] = "idle"
    /\ allocDone[1] = 1
    /\ bufIdx' = [bufIdx EXCEPT ![1] = FreshSlot]
    /\ cpc' = [cpc EXCEPT ![1] = "ready"]
    /\ UNCHANGED poolVars
    /\ UNCHANGED <<source, cfg, srcPos, buffer, eof, processed, fillRead, fillCap,
                   pend, items, nErr, nReads, readAfterErr>>
    /\ UNCHANGED <<handleVars, ctorVars, pipeVars>>

\* chunking.rs:175-180: drain_bytes once its alloc has returned: the swap,
\* cursor_from(count), which panics unless count < len (memory.rs:224) and
\* so drops the old buffer, else the move of the rest and the truncate
DrainWithHandle ==
    /\ cpc[1] = "drain"
    /\ pc[1] = "idle"
    /\ allocDone[1] = AllocsUsed(1) + 1
    /\ LET old == bufIdx[1]
           count == pend[1].count
       IN  /\ bufIdx' = [bufIdx EXCEPT ![1] = FreshSlot]
           /\ IF count < Len(buffer[1])
              THEN /\ buffer' = [buffer EXCEPT ![1] = SubSeq(@, count + 1, Len(@))]
                   /\ items' = [items EXCEPT ![1] =
                                   Append(@, ChunkItem(pend[1].hash, pend[1].offset,
                                                       SubSeq(buffer[1], 1, count)))]
                   /\ cpc' = [cpc EXCEPT ![1] = "ready"]
                   /\ UNCHANGED <<live, relSpawned, nDropped>>
              ELSE /\ live' = [live EXCEPT ![old] = @ - 1]
                   /\ relSpawned' = [relSpawned EXCEPT ![old] = @ + 1]
                   /\ nDropped' = nDropped + 1
                   /\ buffer' = [buffer EXCEPT ![1] = <<>>]
                   /\ cpc' = [cpc EXCEPT ![1] = "panicked"]
                   /\ UNCHANGED items
    /\ UNCHANGED <<allocations, lockHolder, lockQueue, permit, waiters, pc, calls,
                   allocDone, susp, nCleared>>
    /\ UNCHANGED <<source, cfg, srcPos, eof, processed, fillRead, fillCap, pend,
                   nErr, nReads, readAfterErr>>
    /\ UNCHANGED <<handleVars, ctorVars, pipeVars>>

\* the consumer polls for the next record once it has dropped the last one
PollAfterDrop ==
    /\ \A i \in Bits : live[i] = 1 => i = bufIdx[1]
    /\ Poll(1)

\* the consumer drops the record it was given
DropEmitted(i) ==
    /\ cpc[1] \notin {"new", "drain"}
    /\ DropRecord(i)

\* sources short enough for the alloc calls of one task: a chunk has at
\* least two bytes
LiveInit ==
    /\ PoolInit
    /\ NoChunker
    /\ source \in {s \in Sources : Len(s) <= 2 * (MaxAllocs - 1)}
    /\ cfg \in Configs

LiveNext ==
    \/ ChunkerAllocCall
    \/ AllocLock(1)
    \/ AllocCrit(1)
    \/ NotifiedPoll(1)
    \/ NewWithHandle
    \/ PollAfterDrop
    \/ \E n \in 1..MaxRead : Read(1, n)
    \/ ReadEof(1)
    \/ DrainWithHandle
    \/ DropChunker(1)
    \/ \E i \in Bits : DropEmitted(i)
    \/ \E i \in Bits : DeallocLock(i)
    \/ \E i \in Bits : DeallocCrit(i)

LiveSpec == LiveInit /\ [][LiveNext]_vars

\* the tokio scheduler polls every task that can run, the source answers
\* every read, the consumer drops what it was given and polls again
LiveFairSpec ==
    /\ LiveSpec
    /\ WF_vars(ChunkerAllocCall) /\ WF_vars(AllocLock(1)) /\ WF_vars(AllocCrit(1))
    /\ WF_vars(NotifiedPoll(1)) /\ WF_vars(NewWithHandle) /\ WF_vars(PollAfterDrop)
    /\ WF_vars(\E n \in 1..MaxRead : Read(1, n)) /\ WF_vars(ReadEof(1))
    /\ WF_vars(DrainWithHandle) /\ WF_vars(DropChunker(1))
    /\ \A i \in Bits : WF_vars(DropEmitted(i))
    /\ \A i \in Bits : WF_vars(DeallocLock(i)) /\ WF_vars(DeallocCrit(i))

(***************************************************************************)
(* The pipeline adapter, Chunker::chunk (chunker/mod.rs:7-11): a producer  *)
(* task owns the StreamCdc and sends each item of its stream on a channel  *)
(* of one slot; the next stage receives the records, keeps each for a      *)
(* while and drops it, and may close its end.                              *)
(***************************************************************************)
\* the capacity of the channel
ChanCapacity == 1

\* the slots of the records that sit in the channel
ChanSlots == {chan[k].slot : k \in 1..Len(chan)} \ {-1}

\* the item the producer has got from the stream and not yet sent
Unsent == items[1][nSent + 1]

\* the slot of the handle of that item, -1 for an error: the one live
\* handle that is not the chunker's, the channel's or the consumer's
UnsentSlot ==
    IF Unsent.kind = "chunk"
    THEN CHOOSE i \in Bits :
             live[i] = 1 /\ i # bufIdx[1] /\ i \notin ChanSlots /\ i \notin held
    ELSE -1

\* mutant: send succeeds on a closed channel
SendFails_Never(closed) == FALSE

\* send returns an error once the receive end is closed
SendFails(closed) == closed

\* the producer's loop asks the stream for the next item once the last one
\* is sent
PipePoll ==
    /\ nSent = Len(items[1])
    /\ Poll(1)

\* tx.send(item).await: on a closed channel the send error hands the item
\* back, the loop ends and the task with it, which drops the item and the
\* StreamCdc with its active buffer; else the item goes into the channel
\* when it has room (until then the producer is suspended)
Send ==
    /\ cpc[1] = "ready"
    /\ nSent < Len(items[1])
    /\ IF SendFails(rxClosed)
       THEN /\ live' = [i \in Bits |->
                           IF i = UnsentSlot \/ i = bufIdx[1]
                           THEN live[i] - 1 ELSE live[i]]
            /\ relSpawned' = [i \in Bits |->
                                 IF i = UnsentSlot \/ i = bufIdx[1]
                                 THEN relSpawned[i] + 1 ELSE relSpawned[i]]
            /\ nDropped' = nDropped + (IF UnsentSlot = -1 THEN 1 ELSE 2)
            /\ bufIdx' = [bufIdx EXCEPT ![1] = -1]
            /\ cpc' = [cpc EXCEPT ![1] = "closed"]
            /\ UNCHANGED pipeVars
       ELSE /\ Len(chan) < ChanCapacity
            /\ chan' = Append(chan, [kind |-> Unsent.kind, slot |-> UnsentSlot])
            /\ nSent' = nSent + 1
            /\ UNCHANGED <<rxClosed, held>>
            /\ UNCHANGED <<live, relSpawned, nDropped, bufIdx, cpc>>
    /\ UNCHANGED <<allocations, lockHolder, lockQueue, permit, waiters, pc,
                   calls, allocDone, susp, nCleared>>
    /\ UNCHANGED <<source, cfg, srcPos, buffer, eof, processed, fillRead,
                   fillCap, pend, items, nErr, nReads, readAfterErr>>
    /\ UNCHANGED <<handleVars, ctorVars>>

\* rx.recv().await: the consumer takes the item out of the channel; what
\* was sent before the close can still be received
Recv ==
    /\ chan # <<>>
    /\ chan' = Tail(chan)
    /\ held' = held \cup ({Head(chan).slot} \ {-1})
    /\ UNCHANGED <<rxClosed, nSent>>
    /\ UNCHANGED <<poolVars, chunkVars, handleVars, ctorVars>>

\* the consumer closes the receive end
CloseRx ==
    /\ ~rxClosed
    /\ rxClosed' = TRUE
    /\ UNCHANGED <<chan, nSent, held>>
    /\ UNCHANGED <<poolVars, chunkVars, handleVars, ctorVars>>

\* the consumer drops a record it has received: Drop for MemoryHandle
PipeDropRecord(i) ==
    /\ i \in held
    /\ held' = held \ {i}
    /\ live' = [live EXCEPT ![i] = @ - 1]
    /\ relSpawned' = [relSpawned EXCEPT ![i] = @ + 1]
    /\ nDropped' = nDropped + 1
    /\ UNCHANGED <<chan, rxClosed, nSent>>
    /\ UNCHANGED <<allocations, lockHolder, lockQueue, permit, waiters, pc,
                   calls, allocDone, susp, nCleared>>
    /\ UNCHANGED <<chunkVars, handleVars, ctorVars>>

\* the sources and configs of the pipeline: the longest sources, cut into
\* the smallest chunks
PipeInit ==
    /\ PoolInit
    /\ NoChunker
    /\ source \in {s \in Sources : Len(s) = MaxSrcLen}
    /\ cfg \in {c \in Configs : c.max_size = MinSizeLo}

PipeNext ==
    \/ NewChunker(1)
    \/ PipePoll
    \/ \E n \in 1..MaxRead : Read(1, n)
    \/ ReadEof(1)
    \/ ReadErr(1)
    \/ Drain(1)
    \/ DropChunker(1)
    \/ Send
    \/ Recv
    \/ CloseRx
    \/ \E i \in Bits : PipeDropRecord(i)
    \/ \E i \in Bits : DeallocLock(i)
    \/ \E i \in Bits : DeallocCrit(i)

PipeSpec == PipeInit /\ [][PipeNext]_vars

\* the tokio scheduler polls a task that can run, the source answers each
\* read, and the consumer receives what is in the channel and drops the
\* records it holds; nothing forces it to close its end
PipeFairSpec ==
    /\ PipeSpec
    /\ WF_vars(NewChunker(1)) /\ WF_vars(PipePoll) /\ WF_vars(Drain(1))
    /\ WF_vars(\E n \in 1..MaxRead : Read(1, n)) /\ WF_vars(ReadEof(1))
    /\ WF_vars(DropChunker(1)) /\ WF_vars(Send) /\ WF_vars(Recv)
    /\ \A i \in Bits : WF_vars(PipeDropRecord(i))
    /\ \A i \in Bits : WF_vars(DeallocLock(i)) /\ WF_vars(DeallocCrit(i))

\* mutant: the config is accepted whatever its max_size
MaxSizeFits_Unchecked(c) == TRUE

\* StreamCdcConfig: the assertion max_size <= buffer_size of the pool
MaxSizeFits(c) == c.max_size <= BufferSize

\* the configs asked for at the edge of that assertion: max_size is the
\* buffer size or one more
EdgeConfigs ==
    {MakeConfig(mn, av, mx, lv) :
        <<mn, av, mx, lv>> \in
            {q \in (MinSizeLo..MinSizeHi) \X (MinSizeLo..AvgSizeHi)
                       \X (BufferSize..(BufferSize + 1)) \X (0..MaxLevel) :
                q[1] <= q[2] /\ q[2] <= q[3] /\ Logarithm2(q[2]) >= q[4]}}

\* construction of a chunker from the sizes asked for: the config is
\* validated first and a failed assertion panics before StreamCdc::new
\* (chunking.rs:111-119) allocates anything
NewChecked(r) ==
    IF MaxSizeFits(cfg)
    THEN NewChunker(r)
    ELSE /\ cpc[r] = "new"
         /\ cpc' = [cpc EXCEPT ![r] = "rejected"]
         /\ UNCHANGED poolVars
         /\ UNCHANGED <<source, cfg, srcPos, buffer, bufIdx, eof, processed,
                        fillRead, fillCap, pend, items, nErr, nReads,
                        readAfterErr>>
         /\ UNCHANGED <<handleVars, ctorVars, pipeVars>>

EdgeInit ==
    /\ PoolInit
    /\ NoChunker
    /\ source \in Sources
    /\ cfg \in EdgeConfigs

EdgeNext ==
    \/ NewChecked(1)
    \/ Poll(1)
    \/ \E n \in 1..MaxRead : Read(1, n)
    \/ ReadEof(1)
    \/ ReadErr(1)
    \/ Drain(1)
    \/ DropChunker(1)
    \/ \E i \in Bits : DropRecord(i)
    \/ \E i \in Bits : DeallocLock(i)
    \/ \E i \in Bits : DeallocCrit(i)

EdgeSpec == EdgeInit /\ [][EdgeNext]_vars

\* the runs of TwinSpec come one after the other: a chunker is constructed
\* when the one before it is gone and the pool is empty again
TwinNew(r) ==
    /\ \A q \in Runs : q < r => cpc[q] \in {"done", "panicked"} /\ bufIdx[q] = -1
    /\ \A i \in Bits : ~allocations[i]
    /\ NewChunker(r)

TwinNext ==
    \/ \E r \in Runs : TwinNew(r)
    \/ \E r \in Runs : Poll(r)
    \/ \E r \in Runs : \E n \in 1..MaxRead : Read(r, n)
    \/ \E r \in Runs : ReadEof(r)
    \/ \E r \in Runs : Drain(r)
    \/ \E r \in Runs : DropChunker(r)
    \/ \E i \in Bits : DropRecord(i)
    \/ \E i \in Bits : DeallocLock(i)
    \/ \E i \in Bits : DeallocCrit(i)

TwinSpec == ChunkInit /\ [][TwinNext]_vars

(***************************************************************************)
(* Quantities the claims about the pool speak of.                          *)
(***************************************************************************)
RECURSIVE SumOver(_, _)
SumOver(f, S) ==
    IF S = {} THEN 0
    ELSE LET x == CHOOSE y \in S : TRUE IN f[x] + SumOver(f, S \ {x})

RECURSIVE CountIn(_, _)
CountIn(q, e) ==
    IF q = <<>> THEN 0
    ELSE (IF Head(q) = e THEN 1 ELSE 0) + CountIn(Tail(q), e)

\* live (not yet dropped) handles
LiveHandles == SumOver(live, Bits)

\* release tasks of slot i that were spawned and have not yet cleared the bit
PendingRelease(i) ==
    relSpawned[i] + CountIn(lockQueue, RelId(i))
        + (IF lockHolder = RelId(i) THEN 1 ELSE 0)

\* task t is the only one that ever called alloc, and no handle was dropped
Solo(t) ==
    /\ \A u \in Tasks \ {t} : calls[u] = 0
    /\ nDropped = 0

(***************************************************************************)
(* C1: after any interleaving of alloc calls and handle drops, no two live *)
(* handles have the same allocation index.                                 *)
(***************************************************************************)
C1_NoTwoHandlesAlias == \A i \in Bits : live[i] <= 1

\* every slot is handed out, one of them for the second time
C1_Witness ==
    /\ \A i \in 0..(BufferCount - 1) : live[i] = 1
    /\ nDropped > 0
    /\ SumOver(allocDone, Tasks) > BufferCount

(***************************************************************************)
(* C2, as claimed: in every reachable state the set bits of the bitmap are *)
(* exactly the allocation indices of the live handles, one bit per handle. *)
(***************************************************************************)
C2_BitsEqualLiveHandles ==
    /\ CountOnes(allocations) = LiveHandles
    /\ \A i \in Bits : allocations[i] <=> live[i] = 1

(***************************************************************************)
(* C2, amended: the set bits are exactly the allocation indices of the     *)
(* live handles and of the dropped handles whose release task has not yet  *)
(* cleared the bit, one bit per such handle.                               *)
(***************************************************************************)
C2_BitsEqualLiveOrPending ==
    /\ CountOnes(allocations) = LiveHandles + SumOver([i \in Bits |-> PendingRelease(i)], Bits)
    /\ \A i \in Bits : allocations[i] <=> live[i] + PendingRelease(i) = 1
    /\ \A i \in Bits : live[i] + PendingRelease(i) <= 1

\* one handle live, another dropped with its bit still set
C2_Witness ==
    \E i, j \in Bits :
        /\ live[i] = 1 /\ PendingRelease(j) = 1
        /\ allocations[i] /\ allocations[j]

(***************************************************************************)
(* C3: from an empty pool and with no other task contending, buffer_count  *)
(* consecutive alloc calls each return without suspending, and one more    *)
(* alloc call does not return before a handle was dropped and its release  *)
(* task cleared the bit.                                                   *)
(***************************************************************************)
C3_NAllocsThenSuspend ==
    \A t \in Tasks :
        /\ (Solo(t) /\ calls[t] <= BufferCount) =>
               (~susp[t] /\ pc[t] \notin {"lockq", "poll", "parked"})
        /\ ((\A u \in Tasks \ {t} : calls[u] = 0) /\ allocDone[t] > BufferCount) =>
               nCleared >= 1
        /\ (Solo(t) /\ calls[t] > BufferCount) => allocDone[t] = BufferCount

\* the task holds all buffer_count handles and is suspended in one more alloc
C3_Witness ==
    \E t \in Tasks :
        /\ Solo(t)
        /\ allocDone[t] = BufferCount
        /\ LiveHandles = BufferCount
        /\ pc[t] = "parked"

(***************************************************************************)
(* C4: under fair scheduling a free slot always eventually wakes a waiter: *)
(* no task stays suspended in alloc forever while a slot stays free        *)
(* forever.                                                                *)
(***************************************************************************)
C4_FreeSlotWakesWaiter ==
    \A t \in Tasks :
        []<>(~(pc[t] = "parked" /\ ~NoBufferAvailable(allocations)))

(***************************************************************************)
(* Quantities the claims about the chunker speak of.                       *)
(***************************************************************************)
\* the stream of chunker r has ended: it returned None, or a poll panicked
StreamEnded(r) == cpc[r] \in {"done", "panicked"}

\* the records chunker r has emitted, in emission order
Records(r) == SelectSeq(items[r], LAMBDA it : it.kind = "chunk")

RECURSIVE ConcatData(_)
\* the bytes of the records' data, concatenated
ConcatData(recs) ==
    IF recs = <<>> THEN <<>> ELSE Head(recs).data \o ConcatData(Tail(recs))

\* the sum of the lengths of the first k records
SumLen(recs, k) == Len(ConcatData(SubSeq(recs, 1, k)))

(***************************************************************************)
(* C5: for a source that yields no I/O error, once the stream has ended,   *)
(* the data of the emitted records, concatenated in emission order, is the *)
(* source, byte for byte, the bytes of the last chunk included.            *)
(***************************************************************************)
C5_ConcatReconstructsSource ==
    (StreamEnded(1) /\ nErr = 0) => ConcatData(Records(1)) = source

(***************************************************************************)
(* C6: each record's offset is the sum of the lengths of the records       *)
(* emitted before it, and when the stream ends the sum of all record       *)
(* lengths is the number of bytes the source delivered.                    *)
(***************************************************************************)
C6_OffsetsArePrefixSums ==
    /\ \A k \in 1..Len(Records(1)) :
           Records(1)[k].offset = SumLen(Records(1), k - 1)
    /\ (StreamEnded(1) /\ nErr = 0) =>
           SumLen(Records(1), Len(Records(1))) = srcPos[1]

C8_LengthsWithinMinMax ==
    /\ \A k \in 1..(Len(Records(1)) - 1) :
           Len(Records(1)[k].data) >= cfg.min_size
    /\ \A k \in 1..Len(Records(1)) :
           Len(Records(1)[k].data) <= cfg.max_size

(***************************************************************************)
(* C9: when the source returns an I/O error, the stream yields the error   *)
(* as its last element: no item follows it and the source is not read      *)
(* again.                                                                  *)
(***************************************************************************)
C9_ErrorEndsStream ==
    /\ \A k \in 1..Len(items[1]) :
           items[1][k].kind = "err" => k = Len(items[1])
    /\ ~readAfterErr

(***************************************************************************)
(* C10: two runs of the chunker over the same source and config emit the   *)
(* same sequence of (hash, offset, length, data) records and end the same  *)
(* way, whatever the sizes of the reads the source returned to each.       *)
(***************************************************************************)
C10_RunsEmitSameRecords ==
    /\ \A k \in 1..Len(items[2]) :
           k <= Len(items[1]) /\ items[2][k] = items[1][k]
    /\ StreamEnded(2) => (items[2] = items[1] /\ cpc[2] = cpc[1])

\* both runs have ended with records emitted, one after more reads than the other
C10_Witness ==
    /\ StreamEnded(1) /\ StreamEnded(2)
    /\ Len(Records(2)) >= 2
    /\ nReads[1] > nReads[2] + 2

(***************************************************************************)
(* The records a stream emits over a whole source S with config c: the     *)
(* polls of read_chunk one after the other, each fill reading until the    *)
(* buffer is full or the source is at its end.                             *)
(***************************************************************************)
RECURSIVE ReadChunks(_, _, _, _)
\* chunking.rs:222-247 repeated by the stream loop (187-189), from a buffer
\* buf with pos bytes of S read so far; a panic of drain_bytes (177) or a
\* None ends the sequence
ReadChunks(S, c, buf, pos) ==
    LET want == IF Len(buf) < c.max_size THEN BufferSize - Len(buf) ELSE 0
        upto == IF pos + want > Len(S) THEN Len(S) ELSE pos + want
        filled == buf \o SubSeq(S, pos + 1, upto)
        k == Cut(filled, c)
    IN  IF Len(filled) = 0 \/ k.count = 0 \/ k.count >= Len(filled)
        THEN <<>>
        ELSE <<ChunkItem(k.hash, upto - Len(filled), SubSeq(filled, 1, k.count))>>
                 \o ReadChunks(S, c, SubSeq(filled, k.count + 1, Len(filled)), upto)

\* the records of a stream over S from a new StreamCdc
StreamRecords(S, c) == ReadChunks(S, c, <<>>, 0)

\* records with their offsets moved by d
ShiftOffsets(recs, d) ==
    [k \in 1..Len(recs) |-> [recs[k] EXCEPT !.offset = @ + d]]

(***************************************************************************)
(* C11: for a split S = S1 ++ S2 at a cut point the chunker produced on S, *)
(* the records of S1 followed by the records of S2, offsets shifted by     *)
(* |S1|, are the records of S, hashes included.                            *)
(***************************************************************************)
C11_SplitAtCutPoint ==
    (StreamEnded(1) /\ nErr = 0) =>
        \A k \in 1..Len(Records(1)) :
            LET cutAt == Records(1)[k].offset + Len(Records(1)[k].data)
                S1 == SubSeq(source, 1, cutAt)
                S2 == SubSeq(source, cutAt + 1, Len(source))
            IN  StreamRecords(S1, cfg) \o ShiftOffsets(StreamRecords(S2, cfg), cutAt)
                    = Records(1)

\* the stream's own records are those of the polls taken one after the other
StreamRecordsAgree ==
    (StreamEnded(1) /\ nErr = 0) => Records(1) = StreamRecords(source, cfg)

(***************************************************************************)
(* C12: for a finite source without I/O errors the stream ends by          *)
(* returning None, once EOF has been observed and the buffer is empty,     *)
(* after the records it emitted.                                           *)
(***************************************************************************)
C12_StreamEndsWithNone ==
    (StreamEnded(1) /\ nErr = 0) =>
        (cpc[1] = "done" /\ eof[1] /\ buffer[1] = <<>>)

(***************************************************************************)
(* C13: when the source reaches EOF with n buffered bytes remaining,       *)
(* 0 < n <= min_size, the stream emits those n bytes as one final record   *)
(* of length n with hash 0 and then returns None.                          *)
(***************************************************************************)
\* the last cut taken was of the n <= min_size bytes left at EOF
TrailingShortCut ==
    /\ eof[1]
    /\ pend[1].count \in 1..cfg.min_size
    /\ pend[1].offset + pend[1].count = Len(source)

C13_TrailingBytesEmitted ==
    (StreamEnded(1) /\ nErr = 0 /\ TrailingShortCut) =>
        /\ cpc[1] = "done"
        /\ Records(1) # <<>>
        /\ Records(1)[Len(Records(1))] =
               ChunkItem(0, pend[1].offset,
                         SubSeq(source, pend[1].offset + 1, Len(source)))

(***************************************************************************)
(* C14: once every allocated handle has been dropped and the release tasks *)
(* have run, allocations() is back at 0: every drop eventually clears the  *)
(* bit of its own slot.                                                    *)
(***************************************************************************)
C14_DropsEventuallyClear ==
    /\ (LiveHandles = 0) ~> (CountOnes(allocations) = 0 \/ LiveHandles > 0)
    /\ \A i \in Bits : (PendingRelease(i) > 0) ~> ~allocations[i]

\* all handles of a full pool were dropped and released: the bitmap is empty
C14_Witness ==
    /\ nDropped >= BufferCount
    /\ nCleared = nDropped
    /\ LiveHandles = 0
    /\ CountOnes(allocations) = 0

(***************************************************************************)
(* C15: every handle alloc returns has len = 0 and max_len = buffer_size,  *)
(* also when the slot was held before by a handle whose len was not 0.     *)
(***************************************************************************)
C15_NewHandleIsEmpty ==
    [][\A i \in Bits :
          live'[i] > live[i] => (hLen'[i] = 0 /\ hMax'[i] = BufferSize)]_vars

\* a handle of len 0 in a slot whose handle before it had len > 0
C15_Witness ==
    \E i \in Bits : live[i] = 1 /\ dirty[i] /\ hLen[i] = 0 /\ lastOp.op = "update_len"

(***************************************************************************)
(* C17: for every live handle, after any update_len, truncate and          *)
(* write-cursor advance calls, 0 <= len <= max_len = buffer_size.          *)
(***************************************************************************)
C17_LenWithinMaxLen ==
    \A i \in Bits :
        live[i] > 0 => (0 <= hLen[i] /\ hLen[i] <= hMax[i] /\ hMax[i] = BufferSize)

\* a cursor advance has filled a handle up to max_len
C17_Witness ==
    /\ lastOp = [op |-> "advance_mut", panicked |-> FALSE]
    /\ \E i \in Bits : live[i] = 1 /\ hLen[i] = hMax[i]

(***************************************************************************)
(* C18: truncate(new_len) sets len to new_len when new_len <= len, and     *)
(* panics and leaves len unchanged when new_len > len; it never increases  *)
(* len.                                                                    *)
(***************************************************************************)
C18_TruncateShrinksOrPanics ==
    [][\A i \in Bits : \A n \in LenArgs :
          Truncate(i, n) =>
              /\ hLen'[i] <= hLen[i]
              /\ IF n <= hLen[i]
                 THEN hLen'[i] = n /\ ~lastOp'.panicked
                 ELSE hLen'[i] = hLen[i] /\ lastOp'.panicked]_vars

\* a truncate beyond the length of a non-empty handle has panicked
C18_Witness ==
    /\ lastOp = [op |-> "truncate", panicked |-> TRUE]
    /\ \E i \in Bits : live[i] = 1 /\ hLen[i] > 0 /\ hLen[i] < hMax[i]

(***************************************************************************)
(* C16: when a task is cancelled while suspended inside alloc, no slot is  *)
(* leaked: every set bit belongs to a live handle or to a pending release, *)
(* the cancelled task is left in no wait list and holds no lock; and a     *)
(* wake-up the cancelled task had received and not yet used goes on to the *)
(* next waiter, when there is one.                                         *)
(***************************************************************************)
C16_CancelLeaksNothing ==
    /\ [](\A i \in Bits : allocations[i] <=> live[i] + PendingRelease(i) = 1)
    /\ [](\A t \in Tasks :
             pc[t] \in {"dropped", "droppedWoken"} =>
                 /\ lockHolder # t
                 /\ CountIn(lockQueue, t) = 0
                 /\ CountIn(waiters, t) = 0)
    /\ [][\A t \in Tasks :
             (pc[t] \in {"woken", "lockqWoken"} /\ pc'[t] = "droppedWoken") =>
                 (waiters # <<>> =>
                      pc'[Head(waiters)] = "woken" /\ waiters' = Tail(waiters))]_vars

(***************************************************************************)
(* C19: constructing a chunker panics whenever min_size is outside         *)
(* [64, 67_108_864], avg_size is outside [256, 268_435_456] or max_size is *)
(* outside [1_024, 1_073_741_824], and no chunker is produced then.        *)
(***************************************************************************)
C19_OutOfRangePanics ==
    ctor.called =>
        LET min_size == ctor.args[1]
            avg_size == ctor.args[2]
            max_size == ctor.args[3]
        IN  (\/ min_size < 64 \/ min_size > 67108864
             \/ avg_size < 256 \/ avg_size > 268435456
             \/ max_size < 1024 \/ max_size > 1073741824)
                => ctor.panicked /\ ctor.chunker = <<>>

\* the call of test_maximum_too_high has panicked and left no chunker
C19_Witness ==
    /\ ctor.called
    /\ ctor.args[1] = 64 /\ ctor.args[2] = 256 /\ ctor.args[3] = 1073741825
    /\ ctor.panicked
    /\ ctor.chunker = <<>>

(***************************************************************************)
(* C20: constructing a chunker with min_size > avg_size or with            *)
(* avg_size > max_size fails, so that every constructed chunker has        *)
(* min_size <= avg_size <= max_size.                                       *)
(***************************************************************************)
C20_ConstructedIsOrdered ==
    /\ (ctor.called /\ (\/ ctor.args[1] > ctor.args[2]
                         \/ ctor.args[2] > ctor.args[3]))
            => ctor.panicked /\ ctor.chunker = <<>>
    /\ \A k \in 1..Len(ctor.chunker) :
            /\ ctor.chunker[k].min_size <= ctor.chunker[k].avg_size
            /\ ctor.chunker[k].avg_size <= ctor.chunker[k].max_size

C22_ReconfigurePanics ==
    /\ [](manager # <<>> =>
             manager[1].buffer_count >= 2 /\ manager[1].buffer_size >= 1024)
    /\ [][manager # <<>> =>
             /\ manager' = manager
             /\ (mgrCall'.n # mgrCall.n => mgrCall'.panicked)]_vars

(***************************************************************************)
(* C22 amended: creating the pool panics, and leaves no pool, when         *)
(* buffer_count < 2 or buffer_size < 1024; a later MemoryManager::new on a *)
(* configured pool does not panic and returns the pool as it is; and       *)
(* buffer_size and buffer_count never change after the first               *)
(* configuration.                                                          *)
(***************************************************************************)
C22_ConfiguredOnce ==
    /\ [](manager # <<>> =>
             manager[1].buffer_count >= 2 /\ manager[1].buffer_size >= 1024)
    /\ [][(manager = <<>> /\ mgrCall'.n # mgrCall.n) =>
             IF config'[1].buffer_count < 2 \/ config'[1].buffer_size < 1024
             THEN mgrCall'.panicked /\ manager' = <<>>
             ELSE ~mgrCall'.panicked /\ manager' = config']_vars
    /\ [][manager # <<>> =>
             /\ manager' = manager
             /\ (mgrCall'.n # mgrCall.n => ~mgrCall'.panicked)]_vars

\* a second MemoryManager::new, made when the file says something else, has
\* returned the pool of the first
C22_Witness ==
    /\ manager = <<[buffer_count |-> 2, buffer_size |-> 1024]>>
    /\ mgrCall.n = 2
    /\ mgrCall.file = <<[buffer_count |-> 3, buffer_size |-> 1025]>>
    /\ ~mgrCall.panicked

\* chunking.rs:137-158: some position of buf passes a mask test of cut
MaskHit(buf, c) ==
    LET n == Len(buf)
        remaining == IF n > c.max_size THEN c.max_size ELSE n
        center == IF n > c.max_size THEN c.avg_size
                  ELSE IF n < c.avg_size THEN n ELSE c.avg_size
        small == CutLoop(buf, c.min_size \div 2, center \div 2, 0,
                         c.mask_s_ls, c.mask_s)
        large == CutLoop(buf, center \div 2, remaining \div 2, small.hash,
                         c.mask_l_ls, c.mask_l)
    IN  n > c.min_size /\ (small.found \/ large.found)

\* no position of S passes a mask test: cut, started at each multiple of
\* max_size, runs to the end of its window
MaskFree(S, c) ==
    \A j \in 0..(Len(S) \div c.max_size) :
        ~MaskHit(SubSeq(S, j * c.max_size + 1, Len(S)), c)

(***************************************************************************)
(* C23: for an input in which no position satisfies the mask test, every   *)
(* emitted chunk except possibly the last has length exactly max_size, all *)
(* full-length chunks carry the same hash, and a source of k * max_size    *)
(* such bytes yields exactly k chunks followed by the end of the stream.   *)
(***************************************************************************)
C23_MaskFreeCutsAtMaxSize ==
    (StreamEnded(1) /\ nErr = 0 /\ MaskFree(source, cfg)) =>
        LET recs == Records(1)
        IN  /\ \A k \in 1..(Len(recs) - 1) : Len(recs[k].data) = cfg.max_size
            /\ \A k, l \in 1..Len(recs) :
                   (Len(recs[k].data) = cfg.max_size
                        /\ Len(recs[l].data) = cfg.max_size)
                       => recs[k].hash = recs[l].hash
            /\ Len(source) % cfg.max_size = 0 =>
                   /\ Len(recs) = Len(source) \div cfg.max_size
                   /\ cpc[1] = "done"

\* the number of bits of x: the least n with x < 2^n
BitLen(x) == Cardinality({n \in 0..30 : 2 ^ n <= x})

\* the number of bits of v * v for v < 2^30, by long multiplication in base
\* 2^10, which keeps every intermediate below 2^31
SquareBitLen(v) ==
    LET d0 == v % 1024
        d1 == (v \div 1024) % 1024
        d2 == v \div 1048576
        c0 == d0 * d0
        c1 == 2 * d0 * d1 + c0 \div 1024
        c2 == 2 * d0 * d2 + d1 * d1 + c1 \div 1024
        c3 == 2 * d1 * d2 + c2 \div 1024
        c4 == d2 * d2 + c3 \div 1024
        digits == <<c0 % 1024, c1 % 1024, c2 % 1024, c3 % 1024, c4>>
        top == CHOOSE i \in 1..5 :
                   digits[i] # 0 /\ \A j \in (i + 1)..5 : digits[j] = 0
    IN  10 * (top - 1) + BitLen(digits[top])

\* the base-2 logarithm of v >= 1 rounded to the nearest integer: the k with
\* 2^(k - 1/2) <= v < 2^(k + 1/2), that is 2^(2k - 1) <= v * v < 2^(2k + 1)
NearestLog2(v) == SquareBitLen(v) \div 2

(***************************************************************************)
(* C24: for every u32 v >= 1, logarithm2(v) is the base-2 logarithm of v   *)
(* rounded to the nearest integer, the k with 2^(k-1/2) <= v < 2^(k+1/2);  *)
(* and logarithm2(0) = 0.                                                  *)
(***************************************************************************)
C24_Logarithm2IsNearest ==
    logCall.called =>
        IF logCall.value = 0 THEN logCall.result = 0
        ELSE logCall.result = NearestLog2(logCall.value)

(***************************************************************************)
(* C25: for every valid config and every input, the streaming chunker,     *)
(* which sees the input through a bounded buffer refilled between cuts,    *)
(* emits the same sequence of (hash, offset, length) as the FastCDC        *)
(* iterator run over the whole input held in memory.                       *)
(***************************************************************************)
C25_StreamEqualsIterator ==
    /\ (cpc[1] = "done" /\ cpc[2] = "done") => items[1] = items[2]
    /\ \A k \in 1..Len(items[1]) :
           k <= Len(items[2]) => items[1][k] = items[2][k]

\* both have ended on a source of full length that the stream read in at
\* least three reads and cut into at least two chunks
C25_Witness ==
    /\ cpc[1] = "done" /\ cpc[2] = "done"
    /\ Len(source) = MaxSrcLen
    /\ nReads[1] >= 3
    /\ Len(items[1]) >= 2
    /\ items[1] = items[2]

(***************************************************************************)
(* C26: no task holds the bitmap's lock while it is suspended waiting for  *)
(* the notification: alloc releases the lock before it waits, so whoever   *)
(* holds the lock while acquirers wait is not one of them, and a release   *)
(* task can take the lock and clear its bit.                               *)
(***************************************************************************)
C26_NoLockWhileWaiting ==
    /\ \A t \in Tasks :
           pc[t] \in {"poll", "parked", "woken"} =>
               lockHolder # t /\ CountIn(lockQueue, t) = 0
    /\ lockHolder \in Tasks =>
           pc[lockHolder] \in {"crit", "lockq", "lockqWoken"}

\* every task waits for the notification while a release task holds the lock
C26_Witness ==
    /\ \A t \in Tasks : pc[t] = "parked"
    /\ \E i \in Bits : lockHolder = RelId(i) /\ allocations[i]

(***************************************************************************)
(* C27: each release wakes exactly one waiter: when tasks are suspended in *)
(* alloc waiting for the notification and a handle is released, exactly    *)
(* one of them, the first in line, is resumed by that release and the      *)
(* others stay suspended; a task resumed by one release is no longer in    *)
(* line, so r releases with at least r suspended waiters resume r          *)
(* distinct waiters.                                                       *)
(***************************************************************************)
C27_ReleaseWakesOneWaiter ==
    /\ [](\A t \in Tasks :
             /\ CountIn(waiters, t) = (IF pc[t] = "parked" THEN 1 ELSE 0)
             /\ pc[t] = "woken" => CountIn(waiters, t) = 0)
    /\ [][(nCleared' # nCleared /\ waiters # <<>>) =>
             /\ pc[Head(waiters)] = "parked"
             /\ pc'[Head(waiters)] = "woken"
             /\ \A u \in Tasks \ {Head(waiters)} : pc'[u] = pc[u]
             /\ waiters' = Tail(waiters)
             /\ permit' = permit]_vars

\* two releases have found two suspended waiters and resumed both
C27_Witness ==
    /\ \A t \in Tasks : pc[t] = "woken"
    /\ nCleared = 2
    /\ waiters = <<>>
    /\ ~permit

\* the bytes a handle shows: as_slice, memory.rs:204-207
AsSlice(i) == SubSeq(mem[i], 1, hLen[i])

(***************************************************************************)
(* C28: writing c bytes through a write cursor positioned at offset o      *)
(* (o <= len, o + c <= max_len) sets len to max(len, o + c): len never     *)
(* decreases, a write that ends inside the initialized prefix leaves len   *)
(* unchanged, the bytes of [o, o + c) are written and the bytes outside it *)
(* are unchanged.                                                          *)
(***************************************************************************)
C28_WriteExtendsLen ==
    [][(lastOp'.op = "put_slice" /\ poolVars' = poolVars) =>
          LET i == lastOp'.slot
              off == lastOp'.offset
              c == lastOp'.cnt
          IN  (off <= hLen[i] /\ off + c <= hMax[i]) =>
                  /\ ~lastOp'.panicked
                  /\ hLen'[i] = (IF hLen[i] > off + c THEN hLen[i] ELSE off + c)
                  /\ hLen'[i] >= hLen[i]
                  /\ (off + c <= hLen[i] => hLen'[i] = hLen[i])
                  /\ \A k \in 1..BufferSize :
                         IF k > off /\ k <= off + c
                         THEN mem'[i][k] \in Bytes
                         ELSE mem'[i][k] = mem[i][k]
                  /\ \A j \in Bits \ {i} :
                         mem'[j] = mem[j] /\ hLen'[j] = hLen[j]]_vars

\* tests::bytes_write in small: a write inside the prefix has left len alone
\* and a write at the end has extended it
C28_Witness ==
    /\ lastOp.op = "put_slice"
    /\ ~lastOp.panicked
    /\ \E i \in Bits :
           /\ live[i] = 1
           /\ hLen[i] = 4
           /\ AsSlice(i) = <<0, 1, 1, 0>>

(***************************************************************************)
(* C29: when next() is cancelled at a suspension point (a source read of   *)
(* the fill, or the alloc awaited in drain_bytes), processed equals the    *)
(* sum of the lengths of the records emitted so far and the active buffer  *)
(* holds exactly the bytes read from the source and not yet emitted.       *)
(***************************************************************************)
C29_CancelLeavesValidState ==
    \A r \in Runs :
        cpc[r] = "cancelled" =>
            /\ processed[r] = SumLen(items[r], Len(items[r]))
            /\ buffer[r] = SubSeq(source, SumLen(items[r], Len(items[r])) + 1,
                                  srcPos[r])

\* the producer task has ended and holds no buffer
ProducerEnded ==
    /\ cpc[1] \in {"closed", "done", "panicked"}
    /\ bufIdx[1] = -1

C31_DrainSucceeds ==
    [][\A r \in Runs :
          (/\ cpc[r] = "drain"
           /\ bufIdx'[r] # bufIdx[r]
           /\ 0 < pend[r].count
           /\ pend[r].count <= Len(buffer[r]))
          => /\ cpc'[r] = "ready"
             /\ items'[r] = Append(items[r],
                                   ChunkItem(pend[r].hash, pend[r].offset,
                                             SubSeq(buffer[r], 1, pend[r].count)))
             /\ buffer'[r] = SubSeq(buffer[r], pend[r].count + 1, Len(buffer[r]))
             /\ live'[bufIdx[r]] = 1
             /\ live'[bufIdx'[r]] = 1]_vars

(***************************************************************************)
(* C32: a call of read_chunk reads the source only when it found less than *)
(* max_size bytes in the active buffer, and once a read has returned zero  *)
(* bytes no later read of the source is made.                              *)
(***************************************************************************)
C32_NoNeedlessRead ==
    [][\A r \in Runs :
          /\ (cpc[r] = "ready" /\ cpc'[r] = "fill")
                 => (Len(buffer[r]) < cfg.max_size /\ ~eof[r])
          /\ nReads'[r] > nReads[r] => (cpc[r] = "fill" /\ ~eof[r])]_vars

\* a source shorter than the buffer: the first call read it whole and saw
\* the end (two reads), emitted a record, and the second call has gone on
\* to its cut with less than max_size bytes and no further read
C32_Witness ==
    /\ nErr = 0
    /\ Len(source) < BufferSize
    /\ eof[1]
    /\ nReads[1] = 2
    /\ Len(items[1]) = 1
    /\ cpc[1] = "drain"
    /\ Len(buffer[1]) < cfg.max_size

(***************************************************************************)
(* C33: for every config with min_size <= avg_size <= max_size and every   *)
(* window of bytes, StreamCdc::cut (two for loops over ranges) returns the *)
(* same (hash, count) as the free function cut (two while loops sharing    *)
(* one index) on the same window, sizes and masks.                         *)
(***************************************************************************)
C33_CutEqualsFreeCut ==
    (/\ cpc[1] = "done"
     /\ cpc[2] = "done"
     /\ cfg.min_size <= cfg.avg_size
     /\ cfg.avg_size <= cfg.max_size)
    => pend[1] = pend[2]

\* both were called on a window longer than min_size with ordered sizes
\* and stopped at a mask hit of the second loop
C33_Witness ==
    /\ cpc[1] = "done"
    /\ cpc[2] = "done"
    /\ cfg.min_size <= cfg.avg_size
    /\ cfg.avg_size <= cfg.max_size
    /\ Len(source) > cfg.max_size
    /\ pend[2].count >= cfg.avg_size
    /\ pend[2].count < cfg.max_size
    /\ pend[2].hash # 0

(***************************************************************************)
(* C34: for a valid config and a non-empty window of n bytes cut returns a *)
(* count with 0 < count <= min(n, max_size) and reads no index at or       *)
(* beyond n; so read_chunk never takes its count == 0 return (it ends the  *)
(* stream only on an empty buffer) and drain_bytes is never called with a  *)
(* count above buffer.len.                                                 *)
(***************************************************************************)
C34_CutCountInRange ==
    \A r \in Runs :
        /\ cpc[r] = "drain" =>
               /\ 0 < pend[r].count
               /\ pend[r].count <= Len(buffer[r])
               /\ pend[r].count <= cfg.max_size
               /\ pend[r].count = Cut(buffer[r], cfg).count
               /\ CutReach(Len(buffer[r]), cfg) < Len(buffer[r])
        /\ cpc[r] = "done" => Len(buffer[r]) = 0

\* a window longer than max_size with no mask hit: the loops have read up
\* to the index max_size - 1 and the count is max_size
C34_Witness ==
    /\ cpc[1] = "drain"
    /\ Len(buffer[1]) > cfg.max_size
    /\ pend[1].count = cfg.max_size
    /\ CutReach(Len(buffer[1]), cfg) = cfg.max_size - 1

(***************************************************************************)
(* C35: for every avg_size the range validation accepts (256 to            *)
(* 268_435_456) and every normalization level, the mask derivation is well *)
(* defined: bits + level and bits - level, with bits = logarithm2 of       *)
(* avg_size, both lie in the index range 0..=26 of the mask table, and the *)
(* construction with sizes in range does not panic.                        *)
(***************************************************************************)
C35_MaskIndexInTable ==
    ctor.called =>
        LET avg_size == ctor.args[2]
            level == ctor.args[4]
        IN  /\ (avg_size >= 256 /\ avg_size <= 268435456) =>
                   /\ MaskIndexS(avg_size, level) \in 0..26
                   /\ MaskIndexL(avg_size, level) \in 0..26
            /\ SizesInRange(ctor.args[1], avg_size, ctor.args[3])
                   => ~ctor.panicked

(***************************************************************************)
(* C36: alloc claims the lowest free slot: the index of the handle it      *)
(* returns is the smallest i < buffer_count whose bit is clear while the   *)
(* lock is held (0 from an empty pool).                                    *)
(***************************************************************************)
C36_AllocTakesLowestFree ==
    [][\A t \in Tasks :
          allocDone'[t] = allocDone[t] + 1 =>
              \E i \in Bits :
                  /\ i < BufferCount
                  /\ ~allocations[i]
                  /\ \A j \in Bits : j < i => allocations[j]
                  /\ allocations' = [allocations EXCEPT ![i] = TRUE]
                  /\ live' = [live EXCEPT ![i] = 1]
                  /\ ((\A j \in Bits : ~allocations[j]) => i = 0)]_vars

\* after two releases the third alloc found the pool empty and has taken
\* slot 0, slot 1 being free as well
C36_Witness ==
    /\ nCleared = 2
    /\ allocDone[1] + allocDone[2] = 3
    /\ live[0] = 1
    /\ allocations[0]
    /\ ~allocations[1]

(***************************************************************************)
(* C37: the bitmap is rounded up to whole words and so longer than         *)
(* buffer_count, yet alloc never returns an index >= buffer_count and the  *)
(* number of set bits never exceeds buffer_count: at most buffer_count     *)
(* buffers are ever outstanding.                                           *)
(***************************************************************************)
C37_AtMostBufferCountOutstanding ==
    /\ BitmapLen > BufferCount
    /\ \A i \in Bits : i >= BufferCount => (~allocations[i] /\ live[i] = 0)
    /\ CountOnes(allocations) <= BufferCount
    /\ LiveHandles <= BufferCount

\* all buffer_count buffers are handed out, a task waits in alloc for one,
\* and the bits past buffer_count are clear
C37_Witness ==
    /\ LiveHandles = BufferCount
    /\ CountOnes(allocations) = BufferCount
    /\ \E i \in Bits : i >= BufferCount /\ ~allocations[i]
    /\ \E t \in Tasks : pc[t] = "parked"

(***************************************************************************)
(* C38: in every reachable state each set bit of the bitmap belongs either *)
(* to exactly one live handle or to exactly one spawned release task that  *)
(* has not yet run, never to both and never to neither, and a clear bit to *)
(* none; so dealloc only clears a bit that is set, and a slot is handed    *)
(* out again only after its release task has run.                          *)
(***************************************************************************)
C38_BitHasOneOwner ==
    /\ [](\A i \in Bits :
             IF allocations[i]
             THEN \/ live[i] = 1 /\ PendingRelease(i) = 0
                  \/ live[i] = 0 /\ PendingRelease(i) = 1
             ELSE live[i] = 0 /\ PendingRelease(i) = 0)
    /\ [][\A i \in Bits :
             /\ lockHolder = RelId(i) /\ lockHolder' # RelId(i)
                    => allocations[i] /\ ~allocations'[i]
             /\ live'[i] > live[i] => PendingRelease(i) = 0]_vars

\* the handle of slot 0 was dropped and its release task holds the lock,
\* about to clear the bit, while a task waits in alloc for the lock and the
\* other buffer is handed out
C38_Witness ==
    /\ lockHolder = RelId(0)
    /\ allocations[0]
    /\ live[0] = 0
    /\ live[1] = 1
    /\ \E t \in Tasks : pc[t] \in {"lockq", "lockqWoken"}

(***************************************************************************)
(* C39: under fair scheduling, chunkers fewer than buffer_count, each over *)
(* a finite source without errors and with a consumer that drops every     *)
(* record before it polls for the next: no chunker waits forever in alloc, *)
(* and every chunker eventually reaches the end of its stream (a poll      *)
(* returns None).                                                          *)
(***************************************************************************)
C39_ChunkersReachEnd ==
    /\ []<>(pc[1] = "idle")
    /\ <>(cpc[1] = "done")

====
